---- MODULE Spec2Model ----
(***************************************************************************)
(* A model of youtubesummaries: the WebVTT subtitle parser                 *)
(* (YouTubeSummarizer._parse_vtt_content, _parse_vtt_timestamps,           *)
(* _clean_vtt_line, _time_to_seconds) and the naming of the summary file   *)
(* (get_video_id, generate_filename_from_metadata,                         *)
(* generate_title_from_summary, save_summary), download_transcript,        *)
(* summarize and the batch loop of the command line (cli.main,             *)
(* cli.process_single_url).                                                *)
(*                                                                         *)
(* A Python str is a sequence of one-character strings.  A Python         *)
(* exception leaving a function is the value ValueError (pure functions)   *)
(* or the control state "raised" (the segment scan).                       *)
(***************************************************************************)
EXTENDS Integers, Sequences, FiniteSets, TLC

VARIABLES
    vtt_content,   \* the argument of both parsing passes (a str)
    pc,            \* where the run stands
    transcript,    \* the value _parse_vtt_content returned
    lines,         \* _parse_vtt_timestamps: vtt_content.split("\n")
    i,             \* _parse_vtt_timestamps: the cursor (0-based, as in the code)
    segments,      \* _parse_vtt_timestamps: the list built so far
    cues_done,     \* history: the cursor values at which a cue was processed
    seg_cue,       \* history: for each segment, the cursor value of its cue
    cues,          \* input description: the cues vtt_content was written from
    line,          \* the argument of _clean_vtt_line
    cleaned,       \* the value of the first _clean_vtt_line call
    recleaned,     \* the value of _clean_vtt_line applied to `cleaned`
    time_str,      \* the argument of _time_to_seconds
    seconds,       \* what _time_to_seconds produced (a number or ValueError)
    url,           \* the argument of get_video_id
    title,         \* metadata.title, as generate_filename_from_metadata gets it
    video_id,      \* what get_video_id returned (a str or None)
    filename,      \* what generate_filename_from_metadata returned
    metadata,      \* save_summary's metadata: <<>> for None, else <<record>>
    llm_reply,     \* what the completion call for a title does
    disk,          \* what mkdir and the file write of save_summary do
    generated_title, \* the outcome of generate_title_from_summary
    saved,         \* the outcome of save_summary and what it wrote
    ytdlp,         \* what the yt-dlp run of download_transcript does
    temp_dir,      \* the TemporaryDirectory: "none", "exists" or "removed"
    temp_files,    \* the files in it
    info_metadata, \* download_transcript: metadata (<<>> for None)
    download,      \* the outcome of download_transcript
    urls,          \* main: the URLs to process
    url_index,     \* main: how many URLs the loop has gone through
    output_dir,    \* the output directory: whether it exists, and its files
    processed,     \* main: the counter of successes
    failed,        \* main: the counter of failures
    skip_existing, \* config.skip_existing
    calls,         \* what the latest process_single_url call did
    completion,    \* what the completion call of summarize does
    timestamp_examples, \* summarize: the examples put into the prompt
    summary        \* the outcome of summarize

vars == <<vtt_content, pc, transcript, lines, i, segments, cues_done, seg_cue,
          cues, line, cleaned, recleaned, time_str, seconds,
          url, title, video_id, filename,
          metadata, llm_reply, disk, generated_title, saved,
          ytdlp, temp_dir, temp_files, info_metadata, download,
          urls, url_index, output_dir, processed, failed, skip_existing,
          calls, completion, timestamp_examples, summary>>

parseVars ==
    <<vtt_content, transcript, lines, i, segments, cues_done, seg_cue, cues>>
cleanVars == <<line, cleaned, recleaned>>
timeVars  == <<time_str, seconds>>
fileVars  == <<url, title, video_id, filename>>
saveVars  == <<metadata, llm_reply, disk, generated_title, saved>>
downloadVars == <<ytdlp, temp_dir, temp_files, info_metadata, download>>
cliVars ==
    <<urls, url_index, output_dir, processed, failed, skip_existing, calls>>
summarizeVars == <<completion, timestamp_examples, summary>>

\* What an action of one group leaves alone.
notParse == <<cleanVars, timeVars, fileVars, saveVars, downloadVars, cliVars,
             summarizeVars>>
notClean == <<parseVars, timeVars, fileVars, saveVars, downloadVars, cliVars,
             summarizeVars>>
notTime  == <<parseVars, cleanVars, fileVars, saveVars, downloadVars, cliVars,
             summarizeVars>>
notFile  == <<parseVars, cleanVars, timeVars, saveVars, downloadVars, cliVars,
             summarizeVars>>
notSave  ==
    <<parseVars, cleanVars, timeVars, url, title, video_id, filename, downloadVars,
      cliVars, summarizeVars>>
notDownload ==
    <<parseVars, cleanVars, timeVars, fileVars, saveVars, cliVars, summarizeVars>>
notCli ==
    <<parseVars, cleanVars, timeVars, fileVars, saveVars, downloadVars, summarizeVars>>
notSummarize ==
    <<vtt_content, transcript, lines, i, cues_done, seg_cue, cues, cleanVars, timeVars,
      url, title, filename, saveVars, downloadVars, cliVars>>

-----------------------------------------------------------------------------
(* Bounds of the input spaces *)

MaxLines       == 4
MaxHeaderLines == 3
MaxCues        == 2
MaxTextLines   == 2
MaxPieces      == 6
MaxFields      == 4
MaxTitlePieces == 3
MaxReplyPieces == 2
MaxSubtitleLines == 2
MaxUrls        == 2
MaxSegments    == 25

-----------------------------------------------------------------------------
(* Python str primitives *)

\* The value that stands for a raised ValueError.
ValueError == "ValueError"

\* No value yet.
None == "None"

\* None where a str is expected: it differs from every str, whose elements
\* are single characters.
NoneStr == <<None>>

Digits == {"0", "1", "2", "3", "4", "5", "6", "7", "8", "9"}

\* The characters str.strip() and str.split() treat as whitespace.
WhiteSpace == {" ", "\t", "\n", "\r", "\f"}

Min(a, b) == IF a < b THEN a ELSE b

\* s[:n]
Prefix(s, n) == SubSeq(s, 1, Min(n, Len(s)))

\* Whether p occurs in s at position k.
OccursAt(s, k, p) ==
    k + Len(p) - 1 <= Len(s) /\ \A j \in 1..Len(p) : s[k + j - 1] = p[j]

\* s.startswith(p)
StartsWith(s, p) == OccursAt(s, 1, p)

\* p in s
Contains(s, p) == \E k \in 1..(Len(s) - Len(p) + 1) : OccursAt(s, k, p)

\* The first position from p on, and the last one up to p, that holds no
\* whitespace (Len(s) + 1 and 0 when there is none).
RECURSIVE FirstNonSpace(_, _)
FirstNonSpace(s, p) ==
    IF p > Len(s) \/ s[p] \notin WhiteSpace THEN p ELSE FirstNonSpace(s, p + 1)

RECURSIVE LastNonSpace(_, _)
LastNonSpace(s, p) ==
    IF p < 1 \/ s[p] \notin WhiteSpace THEN p ELSE LastNonSpace(s, p - 1)

\* s.strip()
Strip(s) == SubSeq(s, FirstNonSpace(s, 1), LastNonSpace(s, Len(s)))

\* The least element of a non-empty set of numbers.
Least(S) == CHOOSE a \in S : \A b \in S : a <= b

\* s.split(sep) for a non-empty separator, from position p on: the parts are
\* cut at the occurrences of sep found left to right, each search starting
\* after the previous occurrence.
RECURSIVE SplitFrom(_, _, _)
SplitFrom(s, sep, p) ==
    LET found == {k \in p..(Len(s) - Len(sep) + 1) : OccursAt(s, k, sep)}
    IN  IF found = {} THEN <<SubSeq(s, p, Len(s))>>
        ELSE <<SubSeq(s, p, Least(found) - 1)>>
             \o SplitFrom(s, sep, Least(found) + Len(sep))

Split(s, sep) == SplitFrom(s, sep, 1)

\* s.split(): the maximal runs of non-whitespace characters, in order.
RECURSIVE WordsFrom(_, _, _)
WordsFrom(s, p, cur) ==
    IF p > Len(s)
    THEN IF cur = <<>> THEN <<>> ELSE <<cur>>
    ELSE IF s[p] \in WhiteSpace
         THEN (IF cur = <<>> THEN <<>> ELSE <<cur>>) \o WordsFrom(s, p + 1, <<>>)
         ELSE WordsFrom(s, p + 1, Append(cur, s[p]))

SplitWhitespace(s) == WordsFrom(s, 1, <<>>)

\* sep.join(parts)
RECURSIVE Join(_, _)
Join(parts, sep) ==
    IF parts = <<>> THEN <<>>
    ELSE IF Len(parts) = 1 THEN parts[1]
    ELSE parts[1] \o sep \o Join(Tail(parts), sep)

\* s.isdigit()
IsDigitStr(s) == s # <<>> /\ \A k \in 1..Len(s) : s[k] \in Digits

\* re.match(r"^\d+$", s): "$" also matches before one final newline.
MatchDigitsOnly(s) ==
    \/ IsDigitStr(s)
    \/ Len(s) >= 2 /\ s[Len(s)] = "\n" /\ IsDigitStr(SubSeq(s, 1, Len(s) - 1))

DigitValue(c) ==
    CASE c = "0" -> 0 [] c = "1" -> 1 [] c = "2" -> 2 [] c = "3" -> 3
      [] c = "4" -> 4 [] c = "5" -> 5 [] c = "6" -> 6 [] c = "7" -> 7
      [] c = "8" -> 8 [] c = "9" -> 9

\* The value of a digit string with single underscores allowed between digits.
RECURSIVE DecimalValue(_)
DecimalValue(s) ==
    IF s = <<>> THEN 0
    ELSE IF s[Len(s)] = "_" THEN DecimalValue(SubSeq(s, 1, Len(s) - 1))
    ELSE 10 * DecimalValue(SubSeq(s, 1, Len(s) - 1)) + DigitValue(s[Len(s)])

\* The digits part of an int() literal: digits, with single underscores
\* only between digits.
IsIntBody(s) ==
    /\ s # <<>>
    /\ \A k \in 1..Len(s) : s[k] \in Digits \cup {"_"}
    /\ s[1] # "_" /\ s[Len(s)] # "_"
    /\ \A k \in 1..(Len(s) - 1) : ~(s[k] = "_" /\ s[k + 1] = "_")

\* Whether int(s) parses: surrounding whitespace, an optional sign, digits.
IsIntLiteral(s) ==
    LET t == Strip(s)
    IN  IsIntBody(IF t # <<>> /\ t[1] \in {"+", "-"} THEN Tail(t) ELSE t)

\* int(s), for an s that parses.
int(s) ==
    LET t == Strip(s)
    IN  IF t[1] = "-" THEN 0 - DecimalValue(Tail(t))
        ELSE IF t[1] = "+" THEN DecimalValue(Tail(t))
        ELSE DecimalValue(t)

\* A call's outcome: the value returned, or the exception raised.
Returned(v) == [exc |-> None, value |-> v]
Raised(e)   == [exc |-> e, value |-> None]

-----------------------------------------------------------------------------
(* _clean_vtt_line *)

\* re.match(r"<\d{2}:\d{2}:\d{2}\.\d{3}>") at position p of s.
KaraokeAt(s, p) ==
    /\ p + 13 <= Len(s)
    /\ s[p] = "<"
    /\ s[p + 1] \in Digits /\ s[p + 2] \in Digits /\ s[p + 3] = ":"
    /\ s[p + 4] \in Digits /\ s[p + 5] \in Digits /\ s[p + 6] = ":"
    /\ s[p + 7] \in Digits /\ s[p + 8] \in Digits /\ s[p + 9] = "."
    /\ s[p + 10] \in Digits /\ s[p + 11] \in Digits /\ s[p + 12] \in Digits
    /\ s[p + 13] = ">"

\* re.sub(r"<\d{2}:\d{2}:\d{2}\.\d{3}>", "", s), scanning from position p.
RECURSIVE SubKaraokeFrom(_, _)
SubKaraokeFrom(s, p) ==
    IF p > Len(s) THEN <<>>
    ELSE IF KaraokeAt(s, p) THEN SubKaraokeFrom(s, p + 14)
    ELSE <<s[p]>> \o SubKaraokeFrom(s, p + 1)

SubKaraoke(s) == SubKaraokeFrom(s, 1)

\* The position of the first ">" from q on, or 0.
RECURSIVE FirstCloser(_, _)
FirstCloser(s, q) ==
    IF q > Len(s) THEN 0 ELSE IF s[q] = ">" THEN q ELSE FirstCloser(s, q + 1)

\* A variant for r"<[^<>]+>": the tag may hold no "<" either.
TagEnd_innermost(s, p) ==
    IF s[p] # "<" THEN 0
    ELSE LET q == FirstCloser(s, p + 1)
         IN  IF q >= p + 2 /\ \A k \in (p + 1)..(q - 1) : s[k] # "<" THEN q ELSE 0

\* Where the match of r"<[^>]+>" starting at position p ends, or 0 when
\* there is none: "<", one or more characters other than ">", the first ">".
TagEnd(s, p) ==
    IF s[p] # "<" THEN 0
    ELSE LET q == FirstCloser(s, p + 1)
         IN  IF q >= p + 2 THEN q ELSE 0

\* re.sub(r"<[^>]+>", "", s), scanning from position p.
RECURSIVE SubTagsFrom(_, _)
SubTagsFrom(s, p) ==
    IF p > Len(s) THEN <<>>
    ELSE LET q == TagEnd(s, p)
         IN  IF q # 0 THEN SubTagsFrom(s, q + 1)
             ELSE <<s[p]>> \o SubTagsFrom(s, p + 1)

SubTags(s) == SubTagsFrom(s, 1)

\* " ".join(s.split())
CollapseWhitespace(s) == Join(SplitWhitespace(s), <<" ">>)

_clean_vtt_line(s) == Strip(CollapseWhitespace(SubTags(SubKaraoke(s))))

-----------------------------------------------------------------------------
(* _time_to_seconds *)

\* A variant that also converts the milliseconds part with int().
_time_to_seconds_ms_parsed(t) ==
    LET hms == Split(t, <<":">>)
        sms == Split(hms[3], <<".">>)
    IN  IF Len(hms) # 3 THEN Raised(ValueError)
        ELSE IF Len(sms) # 2 THEN Raised(ValueError)
        ELSE IF \/ ~IsIntLiteral(hms[1]) \/ ~IsIntLiteral(hms[2])
                \/ ~IsIntLiteral(sms[1]) \/ ~IsIntLiteral(sms[2])
             THEN Raised(ValueError)
        ELSE Returned(int(hms[1]) * 3600 + int(hms[2]) * 60 + int(sms[1]))

\* A variant that rounds to the nearest second instead of dropping ms.
_time_to_seconds_rounded(t) ==
    LET hms == Split(t, <<":">>)
        sms == Split(hms[3], <<".">>)
    IN  IF Len(hms) # 3 THEN Raised(ValueError)
        ELSE IF Len(sms) # 2 THEN Raised(ValueError)
        ELSE IF ~IsIntLiteral(hms[1]) \/ ~IsIntLiteral(hms[2]) \/ ~IsIntLiteral(sms[1])
             THEN Raised(ValueError)
        ELSE Returned(int(hms[1]) * 3600 + int(hms[2]) * 60 + int(sms[1])
                      + (IF IsIntLiteral(sms[2]) /\ int(sms[2]) >= 500 THEN 1 ELSE 0))

\* h, m, s_ms = time_str.split(":"); s, ms = s_ms.split(".");
\* int(h) * 3600 + int(m) * 60 + int(s).  An unpacking of the wrong number
\* of parts and an int() of a non-literal both raise ValueError.
_time_to_seconds(t) ==
    LET hms == Split(t, <<":">>)
        sms == Split(hms[3], <<".">>)
    IN  IF Len(hms) # 3 THEN Raised(ValueError)
        ELSE IF Len(sms) # 2 THEN Raised(ValueError)
        ELSE IF ~IsIntLiteral(hms[1]) \/ ~IsIntLiteral(hms[2]) \/ ~IsIntLiteral(sms[1])
             THEN Raised(ValueError)
        ELSE Returned(int(hms[1]) * 3600 + int(hms[2]) * 60 + int(sms[1]))

-----------------------------------------------------------------------------
(* _parse_vtt_content *)

NewLine == <<"\n">>

\* "-->"
ArrowToken == <<"-", "-", ">">>

\* " --> "
ArrowSeparator == <<" ", "-", "-", ">", " ">>

HeaderPrefixes ==
    { <<"W", "E", "B", "V", "T", "T">>,
      <<"N", "O", "T", "E">>,
      <<"K", "i", "n", "d", ":">>,
      <<"L", "a", "n", "g", "u", "a", "g", "e", ":">> }

\* A variant without the two digit-only tests.
IsTranscriptLine_digits_kept(l) ==
    /\ l # <<>>
    /\ \A h \in HeaderPrefixes : ~StartsWith(l, h)
    /\ ~Contains(l, ArrowToken)

\* A variant without the "-->" test.
IsTranscriptLine_arrows_kept(l) ==
    /\ l # <<>>
    /\ \A h \in HeaderPrefixes : ~StartsWith(l, h)
    /\ ~IsDigitStr(l)
    /\ ~MatchDigitsOnly(l)

\* The condition under which the flat pass keeps a (stripped) line.
IsTranscriptLine(l) ==
    /\ l # <<>>
    /\ \A h \in HeaderPrefixes : ~StartsWith(l, h)
    /\ ~Contains(l, ArrowToken)
    /\ ~IsDigitStr(l)
    /\ ~MatchDigitsOnly(l)

\* The loop over the lines, from the k-th one (1-based) on.
RECURSIVE TranscriptParts(_, _)
TranscriptParts(ls, k) ==
    IF k > Len(ls) THEN <<>>
    ELSE LET l  == Strip(ls[k])
             cl == _clean_vtt_line(l)
         IN  (IF IsTranscriptLine(l) /\ cl # <<>> THEN <<cl>> ELSE <<>>)
             \o TranscriptParts(ls, k + 1)

_parse_vtt_content(content) ==
    Join(TranscriptParts(Split(content, NewLine), 1), <<" ">>)

-----------------------------------------------------------------------------
(* _parse_vtt_timestamps *)

\* re.match(r"\d{2}:\d{2}:\d{2}\.\d{3}") at position p of s.
TimestampAt(s, p) ==
    /\ p + 11 <= Len(s)
    /\ s[p] \in Digits /\ s[p + 1] \in Digits /\ s[p + 2] = ":"
    /\ s[p + 3] \in Digits /\ s[p + 4] \in Digits /\ s[p + 5] = ":"
    /\ s[p + 6] \in Digits /\ s[p + 7] \in Digits /\ s[p + 8] = "."
    /\ s[p + 9] \in Digits /\ s[p + 10] \in Digits /\ s[p + 11] \in Digits

\* re.match(r"^\d{2}:\d{2}:\d{2}\.\d{3} --> \d{2}:\d{2}:\d{2}\.\d{3}", l)
MatchCueTiming(l) ==
    /\ TimestampAt(l, 1)
    /\ OccursAt(l, 13, ArrowSeparator)
    /\ TimestampAt(l, 18)

\* The condition of the outer loop's if.
IsCueTimingLine(l) == Contains(l, ArrowToken) /\ MatchCueTiming(l)

\* A variant of the inner loop that does not back up at a "-->" line.
RECURSIVE CollectText_no_backup(_, _, _)
CollectText_no_backup(ls, j, parts) ==
    IF j >= Len(ls) THEN [i |-> j, text_parts |-> parts]
    ELSE LET text_line == Strip(ls[j + 1])
             cleaned_text == _clean_vtt_line(text_line)
         IN  IF text_line = <<>> THEN [i |-> j, text_parts |-> parts]
             ELSE IF Contains(text_line, ArrowToken)
                  THEN [i |-> j, text_parts |-> parts]
             ELSE CollectText_no_backup(ls, j + 1,
                                        IF cleaned_text # <<>>
                                        THEN Append(parts, cleaned_text) ELSE parts)

\* A variant of the inner loop that backs up by two at a "-->" line.
RECURSIVE CollectText_backup_two(_, _, _)
CollectText_backup_two(ls, j, parts) ==
    IF j >= Len(ls) THEN [i |-> j, text_parts |-> parts]
    ELSE LET text_line == Strip(ls[j + 1])
             cleaned_text == _clean_vtt_line(text_line)
         IN  IF text_line = <<>> THEN [i |-> j, text_parts |-> parts]
             ELSE IF Contains(text_line, ArrowToken)
                  THEN [i |-> j - 2, text_parts |-> parts]
             ELSE CollectText_backup_two(ls, j + 1,
                                         IF cleaned_text # <<>>
                                         THEN Append(parts, cleaned_text) ELSE parts)

\* The inner loop, entered with the cursor at j (0-based) and text_parts =
\* parts: the cursor and text_parts it leaves.
RECURSIVE CollectText(_, _, _)
CollectText(ls, j, parts) ==
    IF j >= Len(ls) THEN [i |-> j, text_parts |-> parts]
    ELSE LET text_line == Strip(ls[j + 1])
             cleaned_text == _clean_vtt_line(text_line)
         IN  IF text_line = <<>> THEN [i |-> j, text_parts |-> parts]
             ELSE IF Contains(text_line, ArrowToken)
                  THEN [i |-> j - 1, text_parts |-> parts]
             ELSE CollectText(ls, j + 1,
                              IF cleaned_text # <<>>
                              THEN Append(parts, cleaned_text) ELSE parts)

TimestampedSegment(start_time, end_time, text, start_seconds) ==
    [start_time |-> start_time, end_time |-> end_time, text |-> text,
     start_seconds |-> start_seconds]

\* A variant that stores the end timestamp without cutting it to 8 characters.
OuterIteration_end_uncut(ls, j) ==
    LET l        == Strip(ls[j + 1])
        times    == Split(l, ArrowSeparator)
        got      == CollectText(ls, j + 1, <<>>)
        secs     == _time_to_seconds(times[1])
    IN  IF ~IsCueTimingLine(l)
        THEN [i |-> j + 1, segment |-> <<>>, cue |-> FALSE, exc |-> None]
        ELSE IF Len(times) # 2
        THEN [i |-> j, segment |-> <<>>, cue |-> TRUE, exc |-> ValueError]
        ELSE IF got.text_parts = <<>>
        THEN [i |-> got.i + 1, segment |-> <<>>, cue |-> TRUE, exc |-> None]
        ELSE IF secs.exc # None
        THEN [i |-> got.i, segment |-> <<>>, cue |-> TRUE, exc |-> secs.exc]
        ELSE [i |-> got.i + 1,
              segment |-> <<TimestampedSegment(Prefix(times[1], 8), times[2],
                                               Join(got.text_parts, <<" ">>), secs.value)>>,
              cue |-> TRUE, exc |-> None]

\* One iteration of the outer loop with the cursor at j: the cursor it
\* leaves, the segments it appends (none or one), whether it entered the
\* cue branch, and the exception it raised (None if none).
OuterIteration(ls, j) ==
    LET l        == Strip(ls[j + 1])
        times    == Split(l, ArrowSeparator)
        got      == CollectText(ls, j + 1, <<>>)
        secs     == _time_to_seconds(times[1])
    IN  IF ~IsCueTimingLine(l)
        THEN [i |-> j + 1, segment |-> <<>>, cue |-> FALSE, exc |-> None]
        ELSE IF Len(times) # 2
        THEN [i |-> j, segment |-> <<>>, cue |-> TRUE, exc |-> ValueError]
        ELSE IF got.text_parts = <<>>
        THEN [i |-> got.i + 1, segment |-> <<>>, cue |-> TRUE, exc |-> None]
        ELSE IF secs.exc # None
        THEN [i |-> got.i, segment |-> <<>>, cue |-> TRUE, exc |-> secs.exc]
        ELSE [i |-> got.i + 1,
              segment |-> <<TimestampedSegment(Prefix(times[1], 8), Prefix(times[2], 8),
                                               Join(got.text_parts, <<" ">>), secs.value)>>,
              cue |-> TRUE, exc |-> None]

\* download_transcript calls _parse_vtt_content, then _parse_vtt_timestamps.
ParseVttContent ==
    /\ pc = "content"
    /\ transcript' = _parse_vtt_content(vtt_content)
    /\ pc' = "timestamps"
    /\ UNCHANGED <<vtt_content, cues, lines, i, segments, cues_done, seg_cue, notParse>>

\* _parse_vtt_timestamps is entered: lines, segments and i are set.
StartTimestamps ==
    /\ pc = "timestamps"
    /\ lines' = Split(vtt_content, NewLine)
    /\ segments' = <<>>
    /\ i' = 0
    /\ pc' = "scan"
    /\ UNCHANGED <<vtt_content, cues, transcript, cues_done, seg_cue, notParse>>

\* A variant that puts each new segment at the front of the list.
ScanStep_prepend ==
    /\ pc = "scan"
    /\ i < Len(lines)
    /\ LET r == OuterIteration(lines, i)
       IN  /\ i' = r.i
           /\ pc' = IF r.exc # None THEN "raised" ELSE "scan"
           /\ segments' = r.segment \o segments
           /\ seg_cue' = IF r.segment = <<>> THEN seg_cue ELSE <<i>> \o seg_cue
           /\ cues_done' = IF r.cue THEN Append(cues_done, i) ELSE cues_done
    /\ UNCHANGED <<vtt_content, cues, transcript, lines, notParse>>

\* One iteration of the while loop of _parse_vtt_timestamps.
ScanStep ==
    /\ pc = "scan"
    /\ i < Len(lines)
    /\ LET r == OuterIteration(lines, i)
       IN  /\ i' = r.i
           /\ pc' = IF r.exc # None THEN "raised" ELSE "scan"
           /\ segments' = segments \o r.segment
           /\ seg_cue' = IF r.segment = <<>> THEN seg_cue ELSE Append(seg_cue, i)
           /\ cues_done' = IF r.cue THEN Append(cues_done, i) ELSE cues_done
    /\ UNCHANGED <<vtt_content, cues, transcript, lines, notParse>>

\* The loop condition fails: return segments.
ReturnSegments ==
    /\ pc = "scan"
    /\ i >= Len(lines)
    /\ pc' = "done"
    /\ UNCHANGED <<vtt_content, cues, transcript, lines, i, segments, cues_done,
                   seg_cue, notParse>>

-----------------------------------------------------------------------------
(* _clean_vtt_line and _time_to_seconds, called on their own *)

CleanLine ==
    /\ pc = "clean"
    /\ cleaned' = _clean_vtt_line(line)
    /\ pc' = "cleaned"
    /\ UNCHANGED <<line, recleaned, notClean>>

CleanAgain ==
    /\ pc = "cleaned"
    /\ recleaned' = _clean_vtt_line(cleaned)
    /\ pc' = "recleaned"
    /\ UNCHANGED <<line, cleaned, notClean>>

TimeToSeconds ==
    /\ pc = "time"
    /\ seconds' = _time_to_seconds(time_str)
    /\ pc' = "timed"
    /\ UNCHANGED <<time_str, notTime>>

-----------------------------------------------------------------------------
(* get_video_id *)

\* The characters that end the captured group [^&\n?#]+.
StopChars == {"&", "\n", "?", "#"}

\* "youtube.com/watch?v=", "youtu.be/", "youtube.com/embed/"
WatchPrefix ==
    <<"y", "o", "u", "t", "u", "b", "e", ".", "c", "o", "m", "/",
      "w", "a", "t", "c", "h", "?", "v", "=">>
ShortPrefix == <<"y", "o", "u", "t", "u", ".", "b", "e", "/">>
EmbedPrefix ==
    <<"y", "o", "u", "t", "u", "b", "e", ".", "c", "o", "m", "/",
      "e", "m", "b", "e", "d", "/">>
IdPrefixes == {WatchPrefix, ShortPrefix, EmbedPrefix}

\* "youtube.com/watch?" and "v="
WatchQuery == SubSeq(WatchPrefix, 1, 18)
VParam == <<"v", "=">>

\* The longest run of characters outside StopChars that starts at p.
RunFrom(s, p) ==
    LET stops == {k \in p..Len(s) : s[k] \in StopChars}
    IN  SubSeq(s, p, IF stops = {} THEN Len(s) ELSE Least(stops) - 1)

\* re.search of the first pattern: the places <<p, prefix>> where one of the
\* three prefixes starts at p and a character of the group follows it.
FirstPatternMatches(s) ==
    { m \in (1..Len(s)) \X IdPrefixes :
        /\ OccursAt(s, m[1], m[2])
        /\ m[1] + Len(m[2]) <= Len(s)
        /\ s[m[1] + Len(m[2])] \notin StopChars }

\* The group of the leftmost match (no two prefixes match at one place).
FirstPatternGroup(s) ==
    LET ms == FirstPatternMatches(s)
        m  == CHOOSE m \in ms : \A n \in ms : m[1] <= n[1]
    IN  RunFrom(s, m[1] + Len(m[2]))

\* re.search of the second pattern: the places <<p, q>> where
\* "youtube.com/watch?" starts at p, "v=" ends right before q, no newline lies
\* between them (".*" crosses none) and a character of the group is at q.
SecondPatternMatches(s) ==
    { m \in (1..Len(s)) \X (1..Len(s)) :
        /\ OccursAt(s, m[1], WatchQuery)
        /\ m[1] + Len(WatchQuery) <= m[2] - 2
        /\ OccursAt(s, m[2] - 2, VParam)
        /\ s[m[2]] \notin StopChars
        /\ \A k \in (m[1] + Len(WatchQuery))..(m[2] - 3) : s[k] # "\n" }

\* The leftmost match start wins; from it the greedy ".*" reaches the last
\* "v=" it can.
SecondPatternGroup(s) ==
    LET ms == SecondPatternMatches(s)
        m  == CHOOSE m \in ms :
                  \A n \in ms : m[1] < n[1] \/ (m[1] = n[1] /\ m[2] >= n[2])
    IN  RunFrom(s, m[2])

\* get_video_id(url): the group of the first pattern that matches, or None.
get_video_id(u) ==
    IF FirstPatternMatches(u) # {} THEN FirstPatternGroup(u)
    ELSE IF SecondPatternMatches(u) # {} THEN SecondPatternGroup(u)
    ELSE NoneStr

-----------------------------------------------------------------------------
(* generate_filename_from_metadata *)

max_title_length == 80
MaxFilenameLength == 200
ShortTitleLength == 50

AsciiLetters ==
    { "a", "b", "c", "d", "e", "f", "g", "h", "i", "j", "k", "l", "m",
      "n", "o", "p", "q", "r", "s", "t", "u", "v", "w", "x", "y", "z",
      "A", "B", "C", "D", "E", "F", "G", "H", "I", "J", "K", "L", "M",
      "N", "O", "P", "Q", "R", "S", "T", "U", "V", "W", "X", "Y", "Z" }

\* Letters outside ASCII, which \w matches and [a-zA-Z] does not.
OtherLetters == {"é"}

\* \w on a str: letters, digits and the underscore.
WordChars == AsciiLetters \cup OtherLetters \cup Digits \cup {"_"}

\* [<>:"/\\|?*]
InvalidChars == {"<", ">", ":", "\"", "/", "\\", "|", "?", "*"}

\* [-_\s]
SeparatorChars == {"-", "_"} \cup WhiteSpace

\* "Unknown_Title", ".", ".md"
UnknownTitleName ==
    <<"U", "n", "k", "n", "o", "w", "n", "_", "T", "i", "t", "l", "e">>
Dot == <<".">>
MdSuffix == <<".", "m", "d">>

\* The greatest element of a non-empty set of numbers.
Greatest(S) == CHOOSE a \in S : \A b \in S : b <= a

\* s.strip(chars) and s.rstrip(chars)
StripChars(s, chars) ==
    LET keep == {k \in 1..Len(s) : s[k] \notin chars}
    IN  IF keep = {} THEN <<>> ELSE SubSeq(s, Least(keep), Greatest(keep))

RStripChars(s, chars) ==
    LET keep == {k \in 1..Len(s) : s[k] \notin chars}
    IN  IF keep = {} THEN <<>> ELSE SubSeq(s, 1, Greatest(keep))

\* re.sub(r'[<>:"/\\|?*]', "_", s)
ReplaceInvalid(s) ==
    [k \in 1..Len(s) |-> IF s[k] \in InvalidChars THEN "_" ELSE s[k]]

\* re.sub(r"[^\w\s-]", "", s)
RemoveSpecial(s) ==
    SelectSeq(s, LAMBDA c : c \in WordChars \cup WhiteSpace \cup {"-"})

\* re.sub(run, "_", s) for the runs of characters of the set chars: of each
\* run the first character becomes "_" and the others go.
CollapseRuns(s, chars) ==
    LET marked == [k \in 1..Len(s) |->
                     [c    |-> IF s[k] \in chars THEN "_" ELSE s[k],
                      keep |-> s[k] \notin chars \/ k = 1 \/ s[k - 1] \notin chars]]
        kept == SelectSeq(marked, LAMBDA m : m.keep)
    IN  [k \in 1..Len(kept) |-> kept[k].c]

\* The title after lines 400-406.
CleanTitle(t) ==
    LET named == IF t = NoneStr \/ t = <<>> THEN UnknownTitleName ELSE t
    IN  StripChars(CollapseRuns(RemoveSpecial(ReplaceInvalid(named)),
                                SeparatorChars),
                   {"_"})

\* A variant whose truncation leaves a trailing "_" in place.
TruncateTitle_unstripped(c) ==
    IF Len(c) > max_title_length THEN Prefix(c, max_title_length) ELSE c

\* Lines 409-411.
TruncateTitle(c) ==
    IF Len(c) > max_title_length
    THEN RStripChars(Prefix(c, max_title_length), {"_"})
    ELSE c

\* f"{t}.{video_id}.md"
ComposeFilename(t, id) == t \o Dot \o id \o MdSuffix

\* generate_filename_from_metadata(metadata, video_id), of metadata.title
generate_filename_from_metadata(t, id) ==
    LET cleaned_title == TruncateTitle(CleanTitle(t))
    IN  IF Len(ComposeFilename(cleaned_title, id)) > MaxFilenameLength
        THEN ComposeFilename(Prefix(cleaned_title, ShortTitleLength), id)
        ELSE ComposeFilename(cleaned_title, id)

\* get_video_id(url) as process_single_url calls it.
GetVideoId ==
    /\ pc = "url"
    /\ video_id' = get_video_id(url)
    /\ pc' = IF video_id' = NoneStr THEN "invalid" ELSE "id"
    /\ UNCHANGED <<url, title, filename, notFile>>

\* generate_filename_from_metadata, called with the id get_video_id gave.
GenerateFilename ==
    /\ pc = "id"
    /\ filename' = generate_filename_from_metadata(title, video_id)
    /\ pc' = "named"
    /\ UNCHANGED <<url, title, video_id, notFile>>

-----------------------------------------------------------------------------
(* generate_title_from_summary *)

\* The two messages a YouTubeSummarizerError of this part carries.
FailedToGenerateTitle == "Failed to generate title"
FailedToSaveSummary == "Failed to save summary"

\* The outcome of a call that returns a str.
RaisedStr(e) == [exc |-> e, value |-> NoneStr]

MaxGeneratedTitle == 80
MaxExamples == 5
ExampleTextLength == 100

\* re.sub(r"[^a-zA-Z0-9_]", "_", s)
ReplaceNonAscii(s) ==
    [k \in 1..Len(s) |->
        IF s[k] \in AsciiLetters \cup Digits \cup {"_"} THEN s[k] ELSE "_"]

\* Lines 458-463: the content of the reply, stripped and cleaned.
CleanGeneratedTitle(content) ==
    LET text == IF content = NoneStr \/ content = <<>> THEN <<>> ELSE Strip(content)
    IN  StripChars(CollapseRuns(ReplaceNonAscii(text), {"_"}), {"_"})

\* A variant that cuts a long title to 80 characters instead of rejecting it.
generate_title_from_summary_truncating(reply) ==
    IF reply.exc # None THEN RaisedStr(FailedToGenerateTitle)
    ELSE LET t == CleanGeneratedTitle(reply.value)
         IN  IF t = <<>> THEN RaisedStr(FailedToGenerateTitle)
             ELSE Returned(Prefix(t, MaxGeneratedTitle))

\* generate_title_from_summary(summary), of what completion(**kwargs) does:
\* every exception, its own included, leaves as a YouTubeSummarizerError.
generate_title_from_summary(reply) ==
    IF reply.exc # None THEN RaisedStr(FailedToGenerateTitle)
    ELSE LET t == CleanGeneratedTitle(reply.value)
         IN  IF t = <<>> \/ Len(t) > MaxGeneratedTitle
             THEN RaisedStr(FailedToGenerateTitle)
             ELSE Returned(t)

-----------------------------------------------------------------------------
(* save_summary *)

\* "summary", "N/A", "s", ","
SummaryName == <<"s", "u", "m", "m", "a", "r", "y">>
NotAvailable == <<"N", "/", "A">>

\* output_dir and the "/" pathlib joins with
OutputDir == <<"o", "u", "t">>
PathSep == <<"/">>

DigitChar(d) ==
    CASE d = 0 -> "0" [] d = 1 -> "1" [] d = 2 -> "2" [] d = 3 -> "3"
      [] d = 4 -> "4" [] d = 5 -> "5" [] d = 6 -> "6" [] d = 7 -> "7"
      [] d = 8 -> "8" [] d = 9 -> "9"

\* str(n) for n >= 0
RECURSIVE DigitsOf(_)
DigitsOf(n) ==
    IF n < 10 THEN <<DigitChar(n)>>
    ELSE Append(DigitsOf(n \div 10), DigitChar(n % 10))

\* f"{n}"
FormatInt(n) == IF n < 0 THEN <<"-">> \o DigitsOf(0 - n) ELSE DigitsOf(n)

\* A digit string with a "," before every group of three digits but the first.
RECURSIVE GroupDigits(_)
GroupDigits(ds) ==
    IF Len(ds) <= 3 THEN ds
    ELSE GroupDigits(SubSeq(ds, 1, Len(ds) - 3)) \o <<",">>
         \o SubSeq(ds, Len(ds) - 2, Len(ds))

\* f"{n:,}"
FormatGrouped(n) ==
    IF n < 0 THEN <<"-">> \o GroupDigits(DigitsOf(0 - n)) ELSE GroupDigits(DigitsOf(n))

\* An Optional[int] is <<>> for None and <<n>> for n; `if x` holds for an
\* int other than 0.
Truthy(x) == x # <<>> /\ x[1] # 0

\* Lines 498-499
ViewCountStr(m) ==
    IF Truthy(m.view_count) THEN FormatGrouped(m.view_count[1]) ELSE NotAvailable
DurationStr(m) ==
    IF Truthy(m.duration) THEN FormatInt(m.duration[1]) \o <<"s">> ELSE NotAvailable

\* Nothing saved yet.
NotSaved ==
    [exc |-> None, value |-> NoneStr, name |-> NoneStr, title |-> <<>>,
     file |-> <<>>]

\* Lines 486-491: the name chosen when there is no metadata.
FallbackName(t, id) ==
    IF t.exc = None THEN ComposeFilename(t.value, id)
    ELSE ComposeFilename(SummaryName, id)

\* A variant whose inner handler is missing: a title error ends the save.
save_summary_title_error_escapes(id, md, reply, dsk) ==
    IF dsk = "mkdir fails"
    THEN [NotSaved EXCEPT !.exc = FailedToSaveSummary]
    ELSE LET t == IF md = <<>> THEN <<generate_title_from_summary(reply)>> ELSE <<>>
             name == IF md # <<>>
                     THEN generate_filename_from_metadata(md[1].title, id)
                     ELSE FallbackName(t[1], id)
         IN  IF (md = <<>> /\ t[1].exc # None) \/ dsk = "write fails"
             THEN [NotSaved EXCEPT !.exc = FailedToSaveSummary, !.title = t]
             ELSE [exc |-> None,
                   value |-> OutputDir \o PathSep \o name,
                   name |-> name,
                   title |-> t,
                   file |-> <<[name |-> name, header |-> md # <<>>,
                               duration_str |-> IF md = <<>> THEN NoneStr
                                                ELSE DurationStr(md[1]),
                               view_count_str |-> IF md = <<>> THEN NoneStr
                                                  ELSE ViewCountStr(md[1])]>>]

\* save_summary(video_id, summary, output_dir, metadata), of what the title
\* completion and the disk do.  The outcome keeps the name chosen, the
\* outcome of the inner generate_title_from_summary call (<<>> when it was
\* not called) and the file written (<<>> when none was).
save_summary(id, md, reply, dsk) ==
    IF dsk = "mkdir fails"
    THEN [NotSaved EXCEPT !.exc = FailedToSaveSummary]
    ELSE LET t == IF md = <<>> THEN <<generate_title_from_summary(reply)>> ELSE <<>>
             name == IF md # <<>>
                     THEN generate_filename_from_metadata(md[1].title, id)
                     ELSE FallbackName(t[1], id)
         IN  IF dsk = "write fails"
             THEN [NotSaved EXCEPT !.exc = FailedToSaveSummary,
                                   !.name = name, !.title = t]
             ELSE [exc |-> None,
                   value |-> OutputDir \o PathSep \o name,
                   name |-> name,
                   title |-> t,
                   file |-> <<[name |-> name, header |-> md # <<>>,
                               duration_str |-> IF md = <<>> THEN NoneStr
                                                ELSE DurationStr(md[1]),
                               view_count_str |-> IF md = <<>> THEN NoneStr
                                                  ELSE ViewCountStr(md[1])]>>]

\* generate_title_from_summary, called on its own.
GenerateTitleFromSummary ==
    /\ pc = "save"
    /\ generated_title' = generate_title_from_summary(llm_reply)
    /\ pc' = "titled"
    /\ UNCHANGED <<metadata, llm_reply, disk, saved, notSave>>

SaveSummary ==
    /\ pc \in {"save", "titled"}
    /\ saved' = save_summary(video_id, metadata, llm_reply, disk)
    /\ pc' = "saved"
    /\ UNCHANGED <<metadata, llm_reply, disk, generated_title, notSave>>

-----------------------------------------------------------------------------
(* download_transcript *)

\* _parse_vtt_timestamps(vtt_content) as one call: the outer loop run from
\* cursor j with the segments segs.
RECURSIVE ScanFrom(_, _, _)
ScanFrom(ls, j, segs) ==
    IF j >= Len(ls) THEN Returned(segs)
    ELSE LET r == OuterIteration(ls, j)
         IN  IF r.exc # None THEN [exc |-> r.exc, value |-> <<>>]
             ELSE ScanFrom(ls, r.i, segs \o r.segment)

_parse_vtt_timestamps(content) == ScanFrom(Split(content, NewLine), 0, <<>>)

YouTubeSummarizerError == "YouTubeSummarizerError"

\* What the messages of download_transcript's errors say after the video id.
TimedOut == "Download timed out after 120 seconds"
CommandFailed == "yt-dlp command failed"
NoSubtitleFiles == "No English subtitle files found"
NoTextExtracted == "No text extracted from VTT content"
\* The message of line 188 is str(e) of the exception caught.
StrOfException == "str(e)"

\* "Unknown Title", "Unknown Channel"
UnknownTitle ==
    <<"U", "n", "k", "n", "o", "w", "n", " ", "T", "i", "t", "l", "e">>
UnknownChannel ==
    <<"U", "n", "k", "n", "o", "w", "n", " ", "C", "h", "a", "n", "n", "e", "l">>

\* VideoMetadata(title, channel, channel_id, upload_date, duration,
\* view_count); description, which nothing reads, is left out.
VideoMetadata(t, c, cid, date, d, v) ==
    [title |-> t, channel |-> c, channel_id |-> cid, upload_date |-> date,
     duration |-> d, view_count |-> v]

\* Lines 153-155 and 159-161
PlaceholderMetadata == VideoMetadata(UnknownTitle, UnknownChannel, <<>>, <<>>, <<>>, <<>>)

\* A key of the info.json object: missing, null, or holding a value.
\* info_data.get(key, default) and info_data.get(key) for an int:
GetStr(field, default) ==
    IF field.has = "missing" THEN default
    ELSE IF field.has = "null" THEN NoneStr
    ELSE field.value

GetInt(field) == IF field.has = "value" THEN <<field.value>> ELSE <<>>

\* An exception, and the YouTubeSummarizerError of the given message; cause
\* is the class of the exception a handler wrapped, if it wrapped one.
Exception(class) ==
    [class |-> class, message |-> StrOfException, details |-> <<>>, cause |-> None]
SummarizerError(message, details) ==
    [class |-> YouTubeSummarizerError, message |-> message, details |-> details,
     cause |-> None]

\* Lines 136-161: the metadata, or the exception that leaves the block.
\* Only json.JSONDecodeError and KeyError are caught in it.
ParseInfoJson(info) ==
    CASE info.state = "missing" -> [exc |-> None, metadata |-> PlaceholderMetadata]
      [] info.state = "unreadable" -> [exc |-> "OSError", metadata |-> PlaceholderMetadata]
      [] info.state = "invalid JSON" -> [exc |-> None, metadata |-> PlaceholderMetadata]
      [] info.state = "not an object" ->
            [exc |-> "AttributeError", metadata |-> PlaceholderMetadata]
      [] info.state = "object" ->
            [exc |-> None,
             metadata |-> VideoMetadata(GetStr(info.title, UnknownTitle),
                                        GetStr(info.channel, UnknownChannel),
                                        GetStr(info.channel_id, <<>>),
                                        GetStr(info.upload_date, <<>>),
                                        GetInt(info.duration),
                                        GetInt(info.view_count))]

\* Lines 180-188: what an exception raised in the try block leaves as.
HandleInDownload(e) ==
    IF e.class = "TimeoutExpired" THEN SummarizerError(TimedOut, <<>>)
    ELSE IF e.class = YouTubeSummarizerError THEN e
    ELSE [class |-> YouTubeSummarizerError, message |-> StrOfException,
          details |-> <<>>, cause |-> e.class]

\* A key of info.json holding the str or int v, null, and missing.
Holding(v) == [has |-> "value", value |-> v]
Null == [has |-> "null", value |-> <<>>]
Missing == [has |-> "missing", value |-> <<>>]
NullInt == [has |-> "null", value |-> 0]
MissingInt == [has |-> "missing", value |-> 0]

\* The info.json file in the given state, which is "object" when it holds a
\* JSON object with the given keys.
InfoJson(st, t, c, cid, date, d, v) ==
    [state |-> st, title |-> t, channel |-> c, channel_id |-> cid,
     upload_date |-> date, duration |-> d, view_count |-> v]

NoInfoJson ==
    InfoJson("missing", Missing, Missing, Missing, Missing, MissingInt, MissingInt)

NotDownloaded ==
    [exc |-> None, message |-> None, details |-> <<>>, cause |-> None, value |-> <<>>]

\* The outcome of a call that raised e, and of one that returned v.
DownloadRaised(e) ==
    [exc |-> e.class, message |-> e.message, details |-> e.details,
     cause |-> e.cause, value |-> <<>>]
DownloadReturned(v) == [NotDownloaded EXCEPT !.value = <<v>>]

NoRun ==
    [kind |-> "none", returncode |-> 0, stderr |-> <<>>, stdout |-> <<>>,
     subtitles |-> "none", info |-> NoInfoJson]

\* The files a finished run left in the temporary directory.
FilesOf(run) ==
    (IF run.subtitles = "none" THEN {} ELSE {"video.en.vtt"})
    \cup (IF run.info.state = "missing" THEN {} ELSE {"video.info.json"})

\* A variant that removes the directory only after a normal return.
Leave_kept_on_error(result) ==
    /\ download' = result
    /\ temp_dir' = IF result.exc = None THEN "removed" ELSE temp_dir
    /\ temp_files' = IF result.exc = None THEN {} ELSE temp_files
    /\ pc' = "downloaded"

\* The with block is left, by return or by exception: the directory and what
\* it holds are removed, and the call ends with the given outcome.
Leave(result) ==
    /\ download' = result
    /\ temp_dir' = "removed"
    /\ temp_files' = {}
    /\ pc' = "downloaded"

\* Line 76: the temporary directory is created.
EnterTempDir ==
    /\ pc = "download"
    /\ temp_dir' = "exists"
    /\ pc' = "run"
    /\ UNCHANGED <<ytdlp, temp_files, info_metadata, download, notDownload>>

\* Line 95: yt-dlp runs.  It times out, cannot be started, or exits and
\* leaves its files.
RunYtDlp ==
    /\ pc = "run"
    /\ \/ /\ ytdlp.kind = "timeout"
          /\ Leave(DownloadRaised(HandleInDownload(Exception("TimeoutExpired"))))
       \/ /\ ytdlp.kind = "not started"
          /\ Leave(DownloadRaised(HandleInDownload(Exception("FileNotFoundError"))))
       \/ /\ ytdlp.kind = "exited"
          /\ temp_files' = FilesOf(ytdlp)
          /\ pc' = "ran"
          /\ UNCHANGED <<temp_dir, download>>
    /\ UNCHANGED <<ytdlp, info_metadata, notDownload>>

\* The details of lines 109-115.
CommandDetails(run) ==
    <<[command |-> "yt-dlp", exit_code |-> run.returncode,
       stderr |-> Strip(run.stderr), stdout |-> Strip(run.stdout), files |-> {}]>>

\* The debug information of lines 123-128.
FilesFound(files) ==
    <<[command |-> "", exit_code |-> 0, stderr |-> <<>>, stdout |-> <<>>,
       files |-> files]>>

\* Lines 98-133: the subtitle files are looked for.
CheckSubtitleFiles ==
    /\ pc = "ran"
    /\ IF "video.en.vtt" \notin temp_files /\ ytdlp.returncode # 0
       THEN Leave(DownloadRaised(HandleInDownload(
                SummarizerError(CommandFailed, CommandDetails(ytdlp)))))
       ELSE IF "video.en.vtt" \notin temp_files
       THEN Leave(DownloadRaised(HandleInDownload(
                SummarizerError(NoSubtitleFiles, FilesFound(temp_files)))))
       ELSE /\ pc' = "metadata"
            /\ UNCHANGED <<temp_dir, temp_files, download>>
    /\ UNCHANGED <<ytdlp, info_metadata, notDownload>>

\* Lines 136-161
ParseMetadata ==
    /\ pc = "metadata"
    /\ LET r == ParseInfoJson(ytdlp.info)
       IN  IF r.exc # None
           THEN /\ Leave(DownloadRaised(HandleInDownload(Exception(r.exc))))
                /\ UNCHANGED info_metadata
           ELSE /\ info_metadata' = <<r.metadata>>
                /\ pc' = "read"
                /\ UNCHANGED <<temp_dir, temp_files, download>>
    /\ UNCHANGED <<ytdlp, notDownload>>

\* Lines 164-178: the first subtitle file is read and parsed by both passes.
ReadAndParse ==
    /\ pc = "read"
    /\ LET transcript_text == _parse_vtt_content(vtt_content)
           timestamped_segments == _parse_vtt_timestamps(vtt_content)
       IN  Leave(IF ytdlp.subtitles = "unreadable"
                 THEN DownloadRaised(HandleInDownload(Exception("UnicodeDecodeError")))
                 ELSE IF timestamped_segments.exc # None
                 THEN DownloadRaised(HandleInDownload(
                          Exception(timestamped_segments.exc)))
                 ELSE IF transcript_text = <<>>
                 THEN DownloadRaised(HandleInDownload(
                          SummarizerError(NoTextExtracted, <<>>)))
                 ELSE DownloadReturned([transcript |-> transcript_text,
                                        metadata |-> info_metadata[1],
                                        segments |-> timestamped_segments.value]))
    /\ UNCHANGED <<ytdlp, info_metadata, notDownload>>

-----------------------------------------------------------------------------
(* summarize *)

\* The two texts of summarize's error messages.
FailedToGenerateSummary == "Failed to generate summary"
EmptyResponse == "LLM returned empty response"

\* What completion(**kwargs) does: it raises an exception of the given class
\* and text, or returns a response whose choices are empty, or one whose
\* first choice holds the given content.
CompletionRaises(class, text) ==
    [kind |-> "raises", class |-> class, text |-> text, content |-> NoneStr]
NoChoices ==
    [kind |-> "no choices", class |-> None, text |-> None, content |-> NoneStr]
Content(c) ==
    [kind |-> "content", class |-> None, text |-> None, content |-> c]
NoCompletion == Content(NoneStr)

\* The outcome of summarize: the class of the exception raised (None if
\* none), its message as the texts that ": " joins, and the str returned.
NotSummarized == [exc |-> None, message |-> <<>>, value |-> NoneStr]
SummaryReturned(v) == [exc |-> None, message |-> <<>>, value |-> v]

\* Lines 350-351: an exception of the try block whose str(e) is the given
\* texts leaves as YouTubeSummarizerError(f"Failed to generate summary: {str(e)}").
HandleInSummarize(str_e) ==
    [exc |-> YouTubeSummarizerError,
     message |-> <<FailedToGenerateSummary>> \o str_e,
     value |-> NoneStr]

\* Lines 292-298: every (len // 10)-th segment, the first five of them, each
\* with its link and the first 100 characters of its text.
SampleStep(n) == IF n \div 10 > 1 THEN n \div 10 ELSE 1
SampleSegments(segs) ==
    [k \in 1..((Len(segs) + SampleStep(Len(segs)) - 1) \div SampleStep(Len(segs)))
        |-> segs[(k - 1) * SampleStep(Len(segs)) + 1]]
TimestampExamples(id, segs) ==
    [k \in 1..Min(MaxExamples, Len(SampleSegments(segs))) |->
        [start_time |-> SampleSegments(segs)[k].start_time,
         video_id |-> id,
         seconds |-> SampleSegments(segs)[k].start_seconds,
         text |-> Prefix(SampleSegments(segs)[k].text, ExampleTextLength)]]

\* A variant without the test of line 346.
Complete_unchecked(c) ==
    CASE c.kind = "raises" -> HandleInSummarize(<<c.text>>)
      [] c.kind = "no choices" -> HandleInSummarize(<<"list index out of range">>)
      [] c.kind = "content" -> SummaryReturned(c.content)

\* Lines 343-351: the completion call and what becomes of its response.  The
\* error of line 347 is raised inside the try block, so the handler of line
\* 350 wraps it like any other exception.
Complete(c) ==
    CASE c.kind = "raises" -> HandleInSummarize(<<c.text>>)
      [] c.kind = "no choices" -> HandleInSummarize(<<"list index out of range">>)
      [] c.kind = "content" ->
            IF c.content = NoneStr \/ c.content = <<>>
            THEN HandleInSummarize(<<FailedToGenerateSummary, EmptyResponse>>)
            ELSE SummaryReturned(c.content)

\* Lines 290-341: the prompt is built.
BuildPrompt ==
    /\ pc = "summarize"
    /\ timestamp_examples' = TimestampExamples(video_id, segments)
    /\ pc' = "prompted"
    /\ UNCHANGED <<segments, video_id, completion, summary, notSummarize>>

\* Lines 343-351
CallCompletion ==
    /\ pc = "prompted"
    /\ summary' = Complete(completion)
    /\ pc' = "summarized"
    /\ UNCHANGED <<segments, video_id, completion, timestamp_examples, notSummarize>>

-----------------------------------------------------------------------------
(* cli.process_single_url and the loop of cli.main *)

\* s.endswith(p)
EndsWith(s, p) == Len(p) <= Len(s) /\ OccursAt(s, Len(s) - Len(p) + 1, p)

\* "**"
DoubleStar == <<"*", "*">>

\* The characters of the ids YouTube issues.  yt-dlp finds subtitles only for
\* such an id.
IssuedIdChars == AsciiLetters \cup Digits \cup {"-", "_"}
IsIssuedId(id) == \A k \in 1..Len(id) : id[k] \in IssuedIdChars

\* An output directory that does not exist.
NoDirectory == [exists |-> FALSE, files |-> {}]

\* Path(output_dir).glob(f"*.{video_id}.md"), for an id without "**", "?",
\* "[" or a single "*" (which IdHasWildcard tells): the names that end in
\* ".<video_id>.md".
IdHasWildcard(id) == \E k \in 1..Len(id) : id[k] \in {"*", "?", "["}
GlobSummaries(dir, id) == { f \in dir.files : EndsWith(f, Dot \o id \o MdSuffix) }

\* A variant that never finds a summary.
ExistingFiles_none(dir, id) == [exc |-> None, files |-> {}]

\* A variant that looks for a summary only when config.skip_existing is set.
ExistingFiles_if_configured(dir, id) ==
    IF ~dir.exists \/ ~skip_existing THEN [exc |-> None, files |-> {}]
    ELSE IF Contains(id, DoubleStar) THEN [exc |-> ValueError, files |-> {}]
    ELSE [exc |-> None, files |-> GlobSummaries(dir, id)]

\* Line 78: the existing summaries of the video.  pathlib rejects a pattern
\* that holds "**" inside a component with a ValueError; no other wildcard
\* is among the ids of the inputs.
ExistingFiles(dir, id) ==
    IF ~dir.exists THEN [exc |-> None, files |-> {}]
    ELSE IF Contains(id, DoubleStar) THEN [exc |-> ValueError, files |-> {}]
    ELSE [exc |-> None, files |-> GlobSummaries(dir, id)]

\* A call that process_single_url made, or its report of a skip.
Call(op, id, ok) == [op |-> op, id |-> id, ok |-> ok]

\* What the collaborators of one process_single_url call do: the download
\* fails or returns metadata of the given title, the completion fails or
\* returns a summary, the disk takes the file or not.
Collaborators ==
    [download : {Raised(YouTubeSummarizerError)} \cup
                { Returned(t) : t \in {<<"H", "i">>, <<>>} },
     summarize : {"ok", "fails"},
     disk : {"ok", "mkdir fails", "write fails"}]

\* The directory after save_summary ran on it with the given outcome.
DirAfterSave(dir, sv, dsk) ==
    IF dsk = "mkdir fails" THEN dir
    ELSE [exists |-> TRUE,
          files |-> IF sv.exc = None THEN dir.files \cup {sv.name} ELSE dir.files]

\* A variant that goes on to summarize and save after a failed download.
ProcessNew_after_failed_download(id, dir, env) ==
    LET md == <<VideoMetadata(<<>>, UnknownChannel, <<>>, <<>>, <<>>, <<>>)>>
        sv == save_summary(id, md, Returned(NoneStr), env.disk)
    IN  IF env.summarize # "ok"
        THEN [exc |-> None, success |-> FALSE, dir |-> dir,
              calls |-> <<Call("download", id, env.download.exc = None),
                          Call("summarize", id, FALSE)>>]
        ELSE [exc |-> None, success |-> sv.exc = None,
              dir |-> DirAfterSave(dir, sv, env.disk),
              calls |-> <<Call("download", id, env.download.exc = None),
                          Call("summarize", id, TRUE),
                          Call("save", id, sv.exc = None)>>]

\* Lines 83-109 of process_single_url: download, summarize, save; every
\* exception raised there is caught and gives False.
ProcessNew(id, dir, env) ==
    LET md == <<VideoMetadata(env.download.value, UnknownChannel, <<>>, <<>>, <<>>, <<>>)>>
        sv == save_summary(id, md, Returned(NoneStr), env.disk)
    IN  IF env.download.exc # None
        THEN [exc |-> None, success |-> FALSE, dir |-> dir,
              calls |-> <<Call("download", id, FALSE)>>]
        ELSE IF env.summarize # "ok"
        THEN [exc |-> None, success |-> FALSE, dir |-> dir,
              calls |-> <<Call("download", id, TRUE), Call("summarize", id, FALSE)>>]
        ELSE [exc |-> None, success |-> sv.exc = None,
              dir |-> DirAfterSave(dir, sv, env.disk),
              calls |-> <<Call("download", id, TRUE), Call("summarize", id, TRUE),
                          Call("save", id, sv.exc = None)>>]

\* Lines 72-81 of process_single_url, up to the decision to skip: the
\* result if the call ends there, and otherwise nothing (<<>>).
BeforeTry(id, dir, existing_files) ==
    IF id = NoneStr
    THEN <<[exc |-> None, success |-> FALSE, dir |-> dir, calls |-> <<>>]>>
    ELSE IF existing_files.exc # None
    THEN <<[exc |-> existing_files.exc, success |-> FALSE, dir |-> dir,
            calls |-> <<>>]>>
    ELSE IF existing_files.files # {}
    THEN <<[exc |-> None, success |-> TRUE, dir |-> dir,
            calls |-> <<Call("skip", id, TRUE)>>]>>
    ELSE <<>>

\* What main does with the result r of process_single_url (lines 158-164):
\* one counter goes up; an exception that left process_single_url ends main.
CountResult(r) ==
    /\ calls' = r.calls
    /\ output_dir' = r.dir
    /\ IF r.exc # None
       THEN /\ pc' = "aborted"
            /\ UNCHANGED <<url_index, processed, failed>>
       ELSE /\ pc' = "batch"
            /\ url_index' = url_index + 1
            /\ processed' = IF r.success THEN processed + 1 ELSE processed
            /\ failed' = IF r.success THEN failed ELSE failed + 1

\* One iteration of the loop of main: process_single_url on the next URL
\* (the id, the search for an existing summary, then download, summarize
\* and save), and the count of its result.
ProcessUrl ==
    /\ pc = "batch"
    /\ url_index < Len(urls)
    /\ LET id == get_video_id(urls[url_index + 1])
           existing_files == ExistingFiles(output_dir, id)
           early == BeforeTry(id, output_dir, existing_files)
       IN  IF early # <<>>
           THEN CountResult(early[1])
           ELSE \E env \in Collaborators :
                   /\ env.download.exc = None => IsIssuedId(id)
                   /\ CountResult(ProcessNew(id, output_dir, env))
    /\ UNCHANGED <<urls, skip_existing, notCli>>

\* Lines 166-172: the loop is over and the report is made.
Finish ==
    /\ pc = "batch"
    /\ url_index = Len(urls)
    /\ pc' = "finished"
    /\ UNCHANGED <<cliVars, notCli>>

\* main is started again on the same URLs and the same output directory.
RunAgain ==
    /\ pc = "finished"
    /\ url_index' = 0
    /\ processed' = 0
    /\ failed' = 0
    /\ calls' = <<>>
    /\ pc' = "batch"
    /\ UNCHANGED <<urls, output_dir, skip_existing, notCli>>

-----------------------------------------------------------------------------
(* Inputs *)

\* "00:00:05.999", "00:00:07.000", "01:02:03.456", "01:02:04.000"
StampA == <<"0", "0", ":", "0", "0", ":", "0", "5", ".", "9", "9", "9">>
StampB == <<"0", "0", ":", "0", "0", ":", "0", "7", ".", "0", "0", "0">>
StampC == <<"0", "1", ":", "0", "2", ":", "0", "3", ".", "4", "5", "6">>
StampD == <<"0", "1", ":", "0", "2", ":", "0", "4", ".", "0", "0", "0">>

BlankLine == <<>>
\* "00:00:05.999 --> 00:00:07.000"
CueEarly == StampA \o ArrowSeparator \o StampB
\* "01:02:03.456 --> 01:02:04.000 line:0", a cue with cue settings
CueLate ==
    StampC \o ArrowSeparator \o StampD \o <<" ", "l", "i", "n", "e", ":", "0">>
\* "00:00:05.999 --> 00:00:07.000 --> 01:02:04.000"
CueDouble == StampA \o ArrowSeparator \o StampB \o ArrowSeparator \o StampD
\* " hi<00:00:06.500><c> yo</c>", which cleans to "hi yo"
TextLine ==
    <<" ", "h", "i", "<", "0", "0", ":", "0", "0", ":", "0", "6", ".", "5", "0", "0", ">",
      "<", "c", ">", " ", "y", "o", "<", "/", "c", ">">>
\* "<c>", which cleans to ""
TagOnlyLine == <<"<", "c", ">">>
\* "12"
DigitLine == <<"1", "2">>
\* "WEBVTT"
HeaderLine == <<"W", "E", "B", "V", "T", "T">>
\* "a-->b": the arrow, but no cue timing
LooseArrowLine == <<"a", "-", "-", ">", "b">>

LineSet ==
    { BlankLine, CueEarly, CueLate, CueDouble, TextLine, TagOnlyLine,
      DigitLine, LooseArrowLine }

\* The sequences of 1..n elements of S.
SeqsUpTo(S, n) == UNION { [1..k -> S] : k \in 1..n }

\* The texts of at most MaxLines lines of LineSet.
Documents == { Join(ls, NewLine) : ls \in SeqsUpTo(LineSet, MaxLines) }

\* The state in which download_transcript calls the two passes on one of docs.
ParseInit(docs) ==
    /\ vtt_content \in docs
    /\ cues = <<>>
    /\ transcript = None
    /\ lines = <<>>
    /\ i = 0
    /\ segments = <<>>
    /\ cues_done = <<>>
    /\ seg_cue = <<>>

ParseIdle == ParseInit({<<>>})

CleanIdle == line = <<>> /\ cleaned = None /\ recleaned = None

TimeIdle == time_str = <<>> /\ seconds = None

FileIdle ==
    url = <<>> /\ title = <<>> /\ video_id = NoneStr /\ filename = NoneStr

SummarizeIdle ==
    completion = NoCompletion /\ timestamp_examples = <<>> /\ summary = NotSummarized

CliIdle ==
    /\ urls = <<>>
    /\ url_index = 0
    /\ output_dir = NoDirectory
    /\ processed = 0
    /\ failed = 0
    /\ skip_existing = TRUE
    /\ calls = <<>>

DownloadIdle ==
    /\ ytdlp = NoRun
    /\ temp_dir = "none"
    /\ temp_files = {}
    /\ info_metadata = <<>>
    /\ download = NotDownloaded

SaveIdle ==
    /\ metadata = <<>>
    /\ llm_reply = Returned(NoneStr)
    /\ disk = "ok"
    /\ generated_title = Returned(NoneStr)
    /\ saved = NotSaved

-----------------------------------------------------------------------------
(* Spec: both passes over every text of at most MaxLines lines of LineSet *)

Init ==
    pc = "content" /\ ParseInit(Documents) /\ CleanIdle /\ TimeIdle /\ FileIdle /\ SaveIdle /\ DownloadIdle /\ CliIdle
    /\ SummarizeIdle

Next == ParseVttContent \/ StartTimestamps \/ ScanStep \/ ReturnSegments

Spec == Init /\ [][Next]_vars

-----------------------------------------------------------------------------
(* SpecHeaders: both passes over texts with all four kinds of header line, *)
(* one of them holding a cue timing after its token                        *)

\* "NOTE 00:00:05.999 --> 00:00:07.000", "Kind: c", "Language: en", "  "
\* and "7 up"
NoteLine == <<"N", "O", "T", "E", " ">> \o CueEarly
KindLine == <<"K", "i", "n", "d", ":", " ", "c">>
LanguageLine == <<"L", "a", "n", "g", "u", "a", "g", "e", ":", " ", "e", "n">>
SpacesLine == <<" ", " ">>
DigitTextLine == <<"7", " ", "u", "p">>

HeaderLineSet ==
    { BlankLine, SpacesLine, HeaderLine, NoteLine, KindLine, LanguageLine,
      DigitLine, DigitTextLine, TextLine, TagOnlyLine, LooseArrowLine }

HeaderDocuments ==
    { Join(ls, NewLine) : ls \in SeqsUpTo(HeaderLineSet, MaxHeaderLines) }

InitHeaders ==
    /\ pc = "content" /\ ParseInit(HeaderDocuments)
    /\ CleanIdle /\ TimeIdle /\ FileIdle /\ SaveIdle /\ DownloadIdle /\ CliIdle
    /\ SummarizeIdle

SpecHeaders == InitHeaders /\ [][Next]_vars

-----------------------------------------------------------------------------
(* SpecCues: both passes over texts written as 1..MaxCues cues, each a     *)
(* cue-timing line and 1..MaxTextLines text lines, a blank line between    *)
(* two cues                                                                 *)

CueTimings ==
    { [start |-> StampA, end |-> StampB, settings |-> <<>>],
      [start |-> StampC, end |-> StampD,
       settings |-> <<" ", "l", "i", "n", "e", ":", "0">>] }

CueTexts == { TextLine, TagOnlyLine }

CueSet ==
    { [timing |-> t, texts |-> x] :
        t \in CueTimings, x \in SeqsUpTo(CueTexts, MaxTextLines) }

\* The lines of one cue, and of a sequence of cues.
CueLines(c) ==
    <<c.timing.start \o ArrowSeparator \o c.timing.end \o c.timing.settings>>
    \o c.texts

RECURSIVE CuesLines(_)
CuesLines(cs) ==
    IF Len(cs) = 1 THEN CueLines(cs[1])
    ELSE CueLines(cs[1]) \o <<BlankLine>> \o CuesLines(Tail(cs))

InitCues ==
    /\ cues \in SeqsUpTo(CueSet, MaxCues)
    /\ vtt_content = Join(CuesLines(cues), NewLine)
    /\ pc = "content"
    /\ transcript = None
    /\ lines = <<>>
    /\ i = 0
    /\ segments = <<>>
    /\ cues_done = <<>>
    /\ seg_cue = <<>>
    /\ CleanIdle /\ TimeIdle /\ FileIdle /\ SaveIdle /\ DownloadIdle /\ CliIdle
    /\ SummarizeIdle

SpecCues == InitCues /\ [][Next]_vars

-----------------------------------------------------------------------------
(* SpecClean: _clean_vtt_line, twice, on every line of at most MaxPieces   *)
(* pieces                                                                   *)

\* "<", ">", "c", " " and "00:00:01.280"
Pieces ==
    { <<"<">>, <<">">>, <<"c">>, <<" ">>,
      <<"0", "0", ":", "0", "0", ":", "0", "1", ".", "2", "8", "0">> }

CleanInputs == {<<>>} \cup { Join(ps, <<>>) : ps \in SeqsUpTo(Pieces, MaxPieces) }

InitClean ==
    /\ pc = "clean"
    /\ line \in CleanInputs
    /\ cleaned = None
    /\ recleaned = None
    /\ ParseIdle /\ TimeIdle /\ FileIdle /\ SaveIdle /\ DownloadIdle /\ CliIdle
    /\ SummarizeIdle

NextClean == CleanLine \/ CleanAgain

SpecClean == InitClean /\ [][NextClean]_vars

-----------------------------------------------------------------------------
(* SpecTime: _time_to_seconds on every string of at most MaxFields fields  *)
(* joined by ":"                                                            *)

\* "", "7", "02", "x", "-3", "59.999", "3.", "1.2.3", "x.5", "5.x"
TimeFields ==
    { <<>>, <<"7">>, <<"0", "2">>, <<"x">>, <<"-", "3">>,
      <<"5", "9", ".", "9", "9", "9">>, <<"3", ".">>, <<"1", ".", "2", ".", "3">>,
      <<"x", ".", "5">>, <<"5", ".", "x">> }

TimeInputs == { Join(fs, <<":">>) : fs \in SeqsUpTo(TimeFields, MaxFields) }

InitTime ==
    /\ pc = "time"
    /\ time_str \in TimeInputs
    /\ seconds = None
    /\ ParseIdle /\ CleanIdle /\ FileIdle /\ SaveIdle /\ DownloadIdle /\ CliIdle
    /\ SummarizeIdle

NextTime == TimeToSeconds

SpecTime == InitTime /\ [][NextTime]_vars

-----------------------------------------------------------------------------
(* SpecFilename: get_video_id on a URL, then generate_filename_from_metadata *)
(* on the id it gave and a title of at most MaxTitlePieces pieces, or a     *)
(* long title                                                                *)

\* u repeated n times
Repeat(u, n) == [k \in 1..(n * Len(u)) |-> u[((k - 1) % Len(u)) + 1]]

\* "Hello, World! / Test"
ExampleTitle ==
    <<"H", "e", "l", "l", "o", ",", " ", "W", "o", "r", "l", "d", "!", " ",
      "/", " ", "T", "e", "s", "t">>
\* "Hello_World_Test"
ExampleCleaned ==
    <<"H", "e", "l", "l", "o", "_", "W", "o", "r", "l", "d", "_",
      "T", "e", "s", "t">>

\* "Hi", ",", " ", "/", "-", "_", "é"
TitlePieces ==
    { <<"H", "i">>, <<",">>, <<" ">>, <<"/">>, <<"-">>, <<"_">>, <<"é">> }

\* "a_" and "ab " repeated: 50, 52, 80, 82 and 120 characters of "a_a_...",
\* 90 of "ab ab ..."
LongTitles ==
    { Repeat(<<"a", "_">>, n) : n \in {25, 26, 40, 41, 60} }
    \cup { Repeat(<<"a", "b", " ">>, 30) }

Titles ==
    {NoneStr, <<>>, ExampleTitle} \cup LongTitles
    \cup { Join(ps, <<>>) : ps \in SeqsUpTo(TitlePieces, MaxTitlePieces) }

\* "https://", "www."
Scheme == <<"h", "t", "t", "p", "s", ":", "/", "/">>
Www == <<"w", "w", "w", ".">>

\* "xyz", "a/b", "a:b*", "dQw4w9WgXcQ", and "x" 117 and 147 times
IdXyz == <<"x", "y", "z">>
IdSlash == <<"a", "/", "b">>
IdColonStar == <<"a", ":", "b", "*">>
IdReal == <<"d", "Q", "w", "4", "w", "9", "W", "g", "X", "c", "Q">>
UrlIds ==
    { IdXyz, IdSlash, IdColonStar, IdReal,
      Repeat(<<"x">>, 117), Repeat(<<"x">>, 147) }

\* "https://youtu.be/<id>", "https://www.youtube.com/watch?v=<id>&t=1",
\* "https://www.youtube.com/watch?t=1&v=<id>#top",
\* "https://www.youtube.com/embed/<id>?rel=0", and three URLs with no id:
\* "https://youtu.be/", "https://www.youtube.com/watch?v=&t=1",
\* "https://example.com/xyz"
Urls ==
    { Scheme \o ShortPrefix \o id : id \in UrlIds }
    \cup { Scheme \o Www \o WatchPrefix \o id \o <<"&", "t", "=", "1">> :
             id \in {IdXyz, IdSlash} }
    \cup { Scheme \o Www \o WatchQuery \o <<"t", "=", "1", "&">> \o VParam
             \o id \o <<"#", "t", "o", "p">> : id \in {IdXyz, IdColonStar} }
    \cup { Scheme \o Www \o EmbedPrefix \o IdReal \o <<"?", "r", "e", "l", "=", "0">> }
    \cup { Scheme \o ShortPrefix,
           Scheme \o Www \o WatchPrefix \o <<"&", "t", "=", "1">>,
           Scheme \o <<"e", "x", "a", "m", "p", "l", "e", ".", "c", "o", "m", "/">>
             \o IdXyz }

InitFilename ==
    /\ pc = "url"
    /\ url \in Urls
    /\ title \in Titles
    /\ video_id = NoneStr
    /\ filename = NoneStr
    /\ ParseIdle /\ CleanIdle /\ TimeIdle /\ SaveIdle /\ DownloadIdle /\ CliIdle
    /\ SummarizeIdle

NextFilename == GetVideoId \/ GenerateFilename

SpecFilename == InitFilename /\ [][NextFilename]_vars

-----------------------------------------------------------------------------
(* SpecSave: generate_title_from_summary and save_summary, with and        *)
(* without metadata, over replies of at most MaxReplyPieces pieces or long  *)
(* ones                                                                      *)

\* "Hi", " ", "_", "é", "!", "7"
ReplyPieces ==
    { <<"H", "i">>, <<" ">>, <<"_">>, <<"é">>, <<"!">>, <<"7">> }

\* None, "", "a" 80 and 81 times, 80 and 82 characters of "a_a_...", a long
\* reply in spaces, and the replies of at most MaxReplyPieces pieces
ReplyContents ==
    { NoneStr, <<>>, Repeat(<<"a">>, 80), Repeat(<<"a">>, 81),
      Repeat(<<"a", "_">>, 40), Repeat(<<"a", "_">>, 41),
      <<" ", "\n">> \o Repeat(<<"a", "b", " ">>, 27) \o <<" ">> }
    \cup { Join(ps, <<>>) : ps \in SeqsUpTo(ReplyPieces, MaxReplyPieces) }

\* The completion call raises, or returns one of the contents.
Replies == {Raised("APIError")} \cup { Returned(c) : c \in ReplyContents }

Durations == { <<>>, <<0>>, <<7>>, <<3600>> }
ViewCounts == { <<>>, <<0>>, <<999>>, <<1000>>, <<1234567>> }

Metadatas ==
    {<<>>} \cup { <<[title |-> ExampleTitle, duration |-> d, view_count |-> v]>> :
                    d \in Durations, v \in ViewCounts }

InitSave ==
    /\ pc = "save"
    /\ video_id \in {IdXyz, IdSlash}
    /\ metadata \in Metadatas
    /\ llm_reply \in Replies
    /\ disk \in {"ok", "mkdir fails", "write fails"}
    /\ generated_title = Returned(NoneStr)
    /\ saved = NotSaved
    /\ url = <<>> /\ title = <<>> /\ filename = NoneStr
    /\ ParseIdle /\ CleanIdle /\ TimeIdle /\ DownloadIdle /\ CliIdle
    /\ SummarizeIdle

NextSave == GenerateTitleFromSummary \/ SaveSummary

SpecSave == InitSave /\ [][NextSave]_vars

-----------------------------------------------------------------------------
(* SpecDownload: download_transcript over what yt-dlp can do and leave, the *)
(* subtitle file holding a text of at most MaxSubtitleLines lines            *)

InfoObject(t, c, d) ==
    InfoJson("object", t, c,
             IF c = Missing THEN Missing ELSE Holding(<<"U", "C", "1">>),
             IF c = Missing THEN Missing
             ELSE Holding(<<"2", "0", "2", "4", "0", "1", "0", "2">>),
             d, d)

\* info.json: absent, unreadable, no JSON, a JSON list, or an object whose
\* keys hold a value, null, or are missing
InfoStates ==
    { [NoInfoJson EXCEPT !.state = st] :
        st \in {"missing", "unreadable", "invalid JSON", "not an object"} }
    \cup { InfoObject(t, c, d) :
             t \in {Holding(ExampleTitle), Null, Missing},
             c \in {Holding(<<"C", "h">>), Missing},
             d \in {Holding(7), NullInt} }

\* yt-dlp times out, cannot be started, or exits with 0 or 1, with or without
\* output, leaving a subtitle file or none, and an info.json or none.
YtDlpRuns ==
    { [NoRun EXCEPT !.kind = k] : k \in {"timeout", "not started"} }
    \cup { [kind |-> "exited", returncode |-> rc, stderr |-> err, stdout |-> <<>>,
            subtitles |-> sub, info |-> inf] :
             rc \in {0, 1},
             err \in {<<>>, <<"E", "R", "R", "O", "R", "\n">>},
             sub \in {"none", "readable", "unreadable"},
             inf \in InfoStates }

\* The texts the subtitle file can hold.
SubtitleDocuments ==
    {<<>>} \cup { Join(ls, NewLine) : ls \in SeqsUpTo(LineSet, MaxSubtitleLines) }

InitDownload ==
    /\ pc = "download"
    /\ ytdlp \in YtDlpRuns
    /\ ParseInit(IF ytdlp.subtitles = "readable" THEN SubtitleDocuments ELSE {<<>>})
    /\ temp_dir = "none"
    /\ temp_files = {}
    /\ info_metadata = <<>>
    /\ download = NotDownloaded
    /\ CleanIdle /\ TimeIdle /\ FileIdle /\ SaveIdle /\ CliIdle
    /\ SummarizeIdle

NextDownload ==
    EnterTempDir \/ RunYtDlp \/ CheckSubtitleFiles \/ ParseMetadata \/ ReadAndParse

SpecDownload == InitDownload /\ [][NextDownload]_vars

-----------------------------------------------------------------------------
(* SpecCli: the loop of main over at most MaxUrls URLs, started any number  *)
(* of times on one output directory                                         *)

\* "https://youtu.be/ab", "https://www.youtube.com/watch?v=ab&t=1",
\* "https://youtu.be/b", "https://youtu.be/**", "https://example.com/xyz"
IdAb == <<"a", "b">>
IdB == <<"b">>
CliUrls ==
    { Scheme \o ShortPrefix \o IdAb,
      Scheme \o Www \o WatchPrefix \o IdAb \o <<"&", "t", "=", "1">>,
      Scheme \o ShortPrefix \o IdB,
      Scheme \o ShortPrefix \o DoubleStar,
      Scheme \o <<"e", "x", "a", "m", "p", "l", "e", ".", "c", "o", "m", "/">>
        \o IdXyz }

\* "Old.ab.md" and "notes.md"
OldSummary == <<"O", "l", "d">> \o Dot \o IdAb \o MdSuffix
OtherFile == <<"n", "o", "t", "e", "s">> \o MdSuffix

OutputDirs ==
    { NoDirectory } \cup
    { [exists |-> TRUE, files |-> fs] : fs \in {{}, {OtherFile}, {OldSummary}} }

InitCli ==
    /\ pc = "batch"
    /\ urls \in SeqsUpTo(CliUrls, MaxUrls)
    /\ url_index = 0
    /\ output_dir \in OutputDirs
    /\ processed = 0
    /\ failed = 0
    /\ skip_existing \in BOOLEAN
    /\ calls = <<>>
    /\ ParseIdle /\ CleanIdle /\ TimeIdle /\ FileIdle /\ SaveIdle /\ DownloadIdle
    /\ SummarizeIdle

NextCli == ProcessUrl \/ Finish \/ RunAgain

SpecCli == InitCli /\ [][NextCli]_vars

-----------------------------------------------------------------------------
(* SpecSummarize: summarize on at most MaxSegments segments, over what the  *)
(* completion call can do                                                   *)

\* n segments one second apart, the first with a text of 101 characters
SegmentsOfCount(n) ==
    [k \in 1..n |->
        TimestampedSegment(Prefix(StampA, 8), Prefix(StampB, 8),
                           IF k = 1 THEN Repeat(<<"a">>, 101) ELSE <<"h", "i">>,
                           k - 1)]

\* The completion call fails in transport, returns no choice, or returns
\* None, "", " " or "## Hi".
Completions ==
    { CompletionRaises(c, t) :
        c \in {"APIConnectionError", "Timeout"},
        t \in {"Connection error", EmptyResponse} }
    \cup { NoChoices }
    \cup { Content(c) : c \in {NoneStr, <<>>, <<" ">>, <<"#", "#", " ", "H", "i">>} }

InitSummarize ==
    /\ pc = "summarize"
    /\ segments \in { SegmentsOfCount(n) : n \in 0..MaxSegments }
    /\ video_id = IdXyz
    /\ completion \in Completions
    /\ timestamp_examples = <<>>
    /\ summary = NotSummarized
    /\ vtt_content = <<>> /\ cues = <<>> /\ transcript = None /\ lines = <<>>
    /\ i = 0 /\ cues_done = <<>> /\ seg_cue = <<>>
    /\ url = <<>> /\ title = <<>> /\ filename = NoneStr
    /\ CleanIdle /\ TimeIdle /\ SaveIdle /\ DownloadIdle /\ CliIdle

NextSummarize == BuildPrompt \/ CallCompletion

SpecSummarize == InitSummarize /\ [][NextSummarize]_vars

-----------------------------------------------------------------------------
(* Properties *)

\* The values of a sequence.
Range(f) == { f[k] : k \in DOMAIN f }

\* The scan has set lines, i and segments.
Scanning == pc \in {"scan", "done", "raised"}

\* The stripped line under cursor value n (0-based).
LineAt(n) == Strip(lines[n + 1])

\* Cursor value n holds a cue-timing line.
CueAt(n) == n \in 0..(Len(lines) - 1) /\ IsCueTimingLine(LineAt(n))

\* C1: neither parsing pass ever raises an exception, whatever the input
\* text, also for a cue-timing line that holds " --> " more than once.
C1_NeverRaises == pc # "raised"

\* C2: whenever segment extraction returns a non-empty sequence, the flat
\* transcript of the same input is the single-space join of the segment
\* texts in order.
C2_TranscriptIsJoinOfSegmentTexts ==
    (pc = "done" /\ segments # <<>>)
        => transcript = Join([k \in 1..Len(segments) |-> segments[k].text], <<" ">>)

\* Cursor value m lies in the text block of the cue at n: every line after
\* n up to m is non-empty and holds no "-->".
InCue(n, m) ==
    /\ n < m /\ m <= Len(lines) - 1
    /\ \A q \in (n + 1)..m : LineAt(q) # <<>> /\ ~Contains(LineAt(q), ArrowToken)

\* The cue at n has a text line whose cleaned form is not empty.
HasUsableText(n) ==
    \E m \in (n + 1)..(Len(lines) - 1) : InCue(n, m) /\ _clean_vtt_line(LineAt(m)) # <<>>

\* C3: a segment is emitted for a cue-timing line only if it has a text
\* line with a non-empty cleaned form; a cue-timing line directly followed
\* by another one gives no segment, and once the scan is past it the second
\* line is the next one processed as a cue (not skipped, not taken as text).
C3_SegmentOnlyWithText ==
    Scanning =>
        /\ \A k \in 1..Len(segments) :
              /\ CueAt(seg_cue[k])
              /\ HasUsableText(seg_cue[k])
              /\ segments[k].text # <<>>
        /\ \A n \in 0..(Len(lines) - 2) :
              (CueAt(n) /\ CueAt(n + 1) /\ i > n)
                  => /\ n \in Range(cues_done)
                     /\ n \notin Range(seg_cue)
                     /\ \/ n + 1 \in Range(cues_done)
                        \/ pc = "scan" /\ i = n + 1

\* C3 witness: a finished scan of a text in which a cue-timing line directly
\* follows another one, and the second one got its segment.
C3_Witness ==
    /\ pc = "done"
    /\ \E n \in 0..(Len(lines) - 2) :
          CueAt(n) /\ CueAt(n + 1) /\ n + 1 \in Range(seg_cue)

\* hours*3600 + minutes*60 + seconds, read off the digits of "HH:MM:SS...".
StampSeconds(t) ==
    (10 * DigitValue(t[1]) + DigitValue(t[2])) * 3600
    + (10 * DigitValue(t[4]) + DigitValue(t[5])) * 60
    + 10 * DigitValue(t[7]) + DigitValue(t[8])

\* The segments are in non-decreasing order of start_seconds.
NonDecreasingStarts ==
    \A k \in 1..(Len(segments) - 1) :
        segments[k].start_seconds <= segments[k + 1].start_seconds

\* C4 as stated: the segment sequence is non-decreasing by start_seconds.
C4_AlwaysNonDecreasing == Scanning => NonDecreasingStarts

\* The cue-timing lines of the text are in non-decreasing order of start.
CuesAuthoredInOrder ==
    \A m, n \in 0..(Len(lines) - 1) :
        (m < n /\ CueAt(m) /\ CueAt(n))
            => StampSeconds(LineAt(m)) <= StampSeconds(LineAt(n))

\* C4 amended: segments are emitted in document order, and the sequence is
\* non-decreasing by start_seconds whenever the cue-timing lines of the
\* input are in non-decreasing order of start time.
C4_DocumentOrder ==
    Scanning =>
        /\ \A k \in 1..(Len(seg_cue) - 1) : seg_cue[k] < seg_cue[k + 1]
        /\ CuesAuthoredInOrder => NonDecreasingStarts

\* C4 witness: a finished scan of an in-order text that returned two
\* segments with different starts.
C4_Witness ==
    /\ pc = "done"
    /\ CuesAuthoredInOrder
    /\ Len(segments) = 2
    /\ segments[1].start_seconds < segments[2].start_seconds

\* C5: every segment's start_seconds is hours*3600 + minutes*60 + seconds of
\* its cue's raw start timestamp, the milliseconds dropped, and agrees with
\* its start_time field.
C5_StartSecondsTruncated ==
    Scanning =>
        \A k \in 1..Len(segments) :
            /\ segments[k].start_seconds = StampSeconds(LineAt(seg_cue[k]))
            /\ segments[k].start_time = SubSeq(LineAt(seg_cue[k]), 1, 8)
            /\ segments[k].start_seconds = StampSeconds(segments[k].start_time)

\* C5 witness: a finished scan with a segment of the cue starting at
\* 01:02:03.456 (3723) and one of the cue starting at 00:00:05.999 (5).
C5_Witness ==
    /\ pc = "done"
    /\ \E k \in 1..Len(segments) :
          StartsWith(LineAt(seg_cue[k]), StampC) /\ segments[k].start_seconds = 3723
    /\ \E k \in 1..Len(segments) :
          StartsWith(LineAt(seg_cue[k]), StampA) /\ segments[k].start_seconds = 5

NonEmpty(x) == x # <<>>

\* The cue has a text line whose cleaned form is not empty.
CueHasText(c) == \E j \in 1..Len(c.texts) : _clean_vtt_line(c.texts[j]) # <<>>

\* The segment the claim describes for a cue.
ExpectedSegment(c) ==
    [start_time    |-> SubSeq(c.timing.start, 1, 8),
     end_time      |-> SubSeq(c.timing.end, 1, 8),
     text          |-> Join(SelectSeq([j \in 1..Len(c.texts) |-> _clean_vtt_line(c.texts[j])],
                                      NonEmpty), <<" ">>),
     start_seconds |-> StampSeconds(c.timing.start)]

ExpectedSegments == [k \in 1..Len(cues) |-> ExpectedSegment(cues[k])]

InputLines == Split(vtt_content, NewLine)

\* "WEBVTT", "NOTE", "Kind:", "Language:"
ClaimedHeaderTokens ==
    { <<"W", "E", "B", "V", "T", "T">>, <<"N", "O", "T", "E">>,
      <<"K", "i", "n", "d", ":">>,
      <<"L", "a", "n", "g", "u", "a", "g", "e", ":">> }

\* A line that, trimmed, is empty, digits only, or starts with a header token.
HeaderOrNumberOrEmpty(l) ==
    LET t == Strip(l)
    IN  \/ t = <<>>
        \/ \A k \in 1..Len(t) : t[k] \in Digits
        \/ \E h \in ClaimedHeaderTokens : Len(t) >= Len(h) /\ SubSeq(t, 1, Len(h)) = h

OnlyHeaderLines == \A k \in 1..Len(InputLines) : HeaderOrNumberOrEmpty(InputLines[k])

\* C7: on a text of header, digit-only and empty lines only,
\* _parse_vtt_content returns "" and _parse_vtt_timestamps returns [].
C7_HeadersGiveNothing ==
    OnlyHeaderLines =>
        /\ pc # "raised"
        /\ pc \in {"timestamps", "scan", "done"} => transcript = <<>>
        /\ segments = <<>>

\* C7 witness: both passes finished on three lines, a header and a
\* digit-only line among them.
C7_Witness ==
    /\ pc = "done"
    /\ OnlyHeaderLines
    /\ Len(InputLines) = 3
    /\ DigitLine \in Range(InputLines)
    /\ \E k \in 1..3 : InputLines[k] \in {HeaderLine, NoteLine, KindLine, LanguageLine}

\* A line the claim keeps: trimmed, it is non-empty, starts with no header
\* token, holds no "-->" and is not digits only.
ClaimedKept(t) ==
    /\ t # <<>>
    /\ \A h \in ClaimedHeaderTokens : ~(Len(t) >= Len(h) /\ SubSeq(t, 1, Len(h)) = h)
    /\ \A k \in 1..(Len(t) - 2) : SubSeq(t, k, k + 2) # <<"-", "-", ">">>
    /\ \E k \in 1..Len(t) : t[k] \notin Digits

\* The cleaned forms of the kept lines, the empty ones left out.
ClaimedFragments ==
    SelectSeq([k \in 1..Len(InputLines) |->
                  IF ClaimedKept(Strip(InputLines[k]))
                  THEN _clean_vtt_line(Strip(InputLines[k])) ELSE <<>>],
              NonEmpty)

\* C8: the flat transcript is the single-space join, in order, of the
\* non-empty cleaned forms of the kept lines, and has no whitespace at
\* either end.
C8_TranscriptIsJoinOfKeptLines ==
    pc \in {"timestamps", "scan", "done", "raised"} =>
        /\ transcript = Join(ClaimedFragments, <<" ">>)
        /\ transcript # <<>> =>
              transcript[1] \notin WhiteSpace /\ transcript[Len(transcript)] \notin WhiteSpace

\* C8 witness: a transcript of two fragments from a text that also holds a
\* "-->" line.
C8_Witness ==
    /\ pc = "done"
    /\ Len(ClaimedFragments) = 2
    /\ \E k \in 1..Len(InputLines) : Contains(InputLines[k], ArrowToken)
    /\ transcript # <<>>

\* C9: cleaning a cleaned line gives the same line.
C9_CleanIdempotent == pc = "recleaned" => recleaned = cleaned

\* "<<00:00:01.280>c>": removing the karaoke marker leaves the tag "<c>".
NestedMarkerLine ==
    <<"<", "<", "0", "0", ":", "0", "0", ":", "0", "1", ".", "2", "8", "0", ">", "c", ">">>

\* C9 witness: the line with a karaoke marker inside a tag, cleaned twice.
C9_Witness == pc = "recleaned" /\ line = NestedMarkerLine /\ cleaned = <<>>

\* The number of c's in t.
Count(t, c) == Cardinality({k \in 1..Len(t) : t[k] = c})

HoursField(t)   == Split(t, <<":">>)[1]
MinutesField(t) == Split(t, <<":">>)[2]
ThirdField(t)   == Split(t, <<":">>)[3]
\* The third field up to its first ".".
SecondsField(t) == Split(ThirdField(t), <<".">>)[1]

\* The failure condition the claim gives.
ClaimedFailure(t) ==
    \/ Count(t, ":") # 2
    \/ ~IsIntLiteral(HoursField(t))
    \/ ~IsIntLiteral(MinutesField(t))
    \/ ~IsIntLiteral(SecondsField(t))

\* The failure condition with the "." of the third field added.
AmendedFailure(t) ==
    \/ Count(t, ":") # 2
    \/ Count(ThirdField(t), ".") # 1
    \/ ~IsIntLiteral(HoursField(t))
    \/ ~IsIntLiteral(MinutesField(t))
    \/ ~IsIntLiteral(SecondsField(t))

ClaimedSeconds(t) ==
    int(HoursField(t)) * 3600 + int(MinutesField(t)) * 60 + int(SecondsField(t))

\* C10 as stated: _time_to_seconds fails exactly when the input has not
\* exactly two ":" or an hour, minute or second field is no integer, and
\* otherwise returns hours*3600 + minutes*60 + seconds.
C10_FailsExactlyOnColonsOrFields ==
    pc = "timed" =>
        /\ seconds.exc # None <=> ClaimedFailure(time_str)
        /\ ~ClaimedFailure(time_str) =>
              seconds.exc = None /\ seconds.value = ClaimedSeconds(time_str)

\* C10 amended: it fails exactly when the input has not exactly two ":",
\* or its third field has not exactly one ".", or the hour, the minute or
\* the second field (the third field up to the ".") is no integer, and
\* otherwise returns hours*3600 + minutes*60 + seconds.
C10_FailsExactlyOnColonsDotOrFields ==
    pc = "timed" =>
        /\ seconds.exc # None <=> AmendedFailure(time_str)
        /\ ~AmendedFailure(time_str) =>
              seconds.exc = None /\ seconds.value = ClaimedSeconds(time_str)

\* C10 witness: "7:02:59.999" gave 7*3600 + 2*60 + 59.
C10_Witness ==
    /\ pc = "timed"
    /\ time_str = <<"7", ":", "0", "2", ":", "5", "9", ".", "9", "9", "9">>
    /\ seconds.exc = None
    /\ seconds.value = 25379

\* The maximal runs of characters of s outside the set seps, in order.
FieldsOf(s, seps) ==
    LET starts == {k \in 1..Len(s) :
                     s[k] \notin seps /\ (k = 1 \/ s[k - 1] \in seps)}
        stop(a) == LET later == {k \in a..Len(s) : s[k] \in seps}
                   IN  IF later = {} THEN Len(s) ELSE Least(later) - 1
        nth(j) == CHOOSE a \in starts : Cardinality({b \in starts : b < a}) = j - 1
    IN  [j \in 1..Cardinality(starts) |-> SubSeq(s, nth(j), stop(nth(j)))]

\* The title the claim describes, before truncation: the characters that are
\* neither word characters, whitespace, "-" nor one of < > : " / \ | ? * are
\* dropped, what is left is cut at the runs of "-", "_", whitespace and
\* < > : " / \ | ? *, and the pieces are joined by "_".
ClaimedCleanTitle(t) ==
    LET named == IF t = NoneStr \/ t = <<>> THEN UnknownTitleName ELSE t
        kept == SelectSeq(named, LAMBDA c :
                    c \in WordChars \cup WhiteSpace \cup {"-"} \cup InvalidChars)
    IN  Join(FieldsOf(kept, SeparatorChars \cup InvalidChars), <<"_">>)

\* The claimed title: at most 80 characters of it, without the "_" a cut
\* leaves at the end.
ClaimedTitle(t) ==
    LET c == ClaimedCleanTitle(t)
        ends == {n \in 0..80 : n = 0 \/ c[n] # "_"}
    IN  IF Len(c) <= 80 THEN c ELSE SubSeq(c, 1, Greatest(ends))

\* C11 as stated: the filename is "<title>.<videoId>.md" with the title
\* cleaned and truncated by the claim's six steps, and "Hello, World! / Test"
\* with id "xyz" gives "Hello_World_Test.xyz.md".
C11_FilenameIsCleanedTitleAndId ==
    pc = "named" =>
        /\ filename = ClaimedTitle(title) \o <<".">> \o video_id \o <<".", "m", "d">>
        /\ title = ExampleTitle /\ video_id = IdXyz =>
              filename = ExampleCleaned \o <<".">> \o IdXyz \o <<".", "m", "d">>

\* C11 amended: the same, except that when "<title>.<videoId>.md" is longer
\* than 200 characters the title part is cut to its first 50 characters.
C11_FilenameIsCleanedTitleAndIdOrShortened ==
    pc = "named" =>
        LET full == ClaimedTitle(title) \o <<".">> \o video_id \o <<".", "m", "d">>
            short == SubSeq(ClaimedTitle(title), 1, Min(50, Len(ClaimedTitle(title))))
                     \o <<".">> \o video_id \o <<".", "m", "d">>
        IN  /\ filename = IF Len(full) > 200 THEN short ELSE full
            /\ title = ExampleTitle /\ video_id = IdXyz =>
                  filename = ExampleCleaned \o <<".">> \o IdXyz \o <<".", "m", "d">>

\* C11 witness: a title of 82 characters "a_a_...", cut to 80 and left
\* without its trailing "_", was named with the id "xyz".
C11_Witness ==
    /\ pc = "named"
    /\ title = Repeat(<<"a", "_">>, 41)
    /\ video_id = IdXyz
    /\ Len(filename) = 79 + 1 + 3 + 3

\* C12 as stated: the filename is never longer than 200 characters, whatever
\* the title and the id get_video_id returned.
C12_FilenameAtMost200 == pc = "named" => Len(filename) <= 200

\* C13 as stated: the whole filename holds none of < > : " / \ | ? *, for
\* every title and every id get_video_id can extract.
C13_FilenameHasNoUnsafeChar ==
    pc = "named" => \A k \in 1..Len(filename) : filename[k] \notin InvalidChars

\* The maximal runs of characters of s inside the set chars, in order.
RunsOf(s, chars) ==
    LET starts == {k \in 1..Len(s) :
                     s[k] \in chars /\ (k = 1 \/ s[k - 1] \notin chars)}
        stop(a) == LET later == {k \in a..Len(s) : s[k] \notin chars}
                   IN  IF later = {} THEN Len(s) ELSE Least(later) - 1
        nth(j) == CHOOSE a \in starts : Cardinality({b \in starts : b < a}) = j - 1
    IN  [j \in 1..Cardinality(starts) |-> SubSeq(s, nth(j), stop(nth(j)))]

\* The cleaned form of a reply: its runs of ASCII letters and digits, joined
\* by "_".
ClaimedGeneratedTitle(content) ==
    IF content = NoneStr THEN <<>>
    ELSE Join(RunsOf(content, AsciiLetters \cup Digits), <<"_">>)

\* The failures of title generation the claim lists.
ListedTitleFailure(reply) ==
    \/ reply.exc # None
    \/ reply.value = NoneStr
    \/ reply.value = <<>>
    \/ Len(ClaimedGeneratedTitle(reply.value)) > 80

\* "summary.<videoId>.md"
SummaryFilename(id) ==
    <<"s", "u", "m", "m", "a", "r", "y", ".">> \o id \o <<".", "m", "d">>

\* C14: when save_summary has no metadata and title generation fails (the
\* completion call fails, the reply is empty, the cleaned title is longer than
\* 80 characters, or any other way), the name chosen is
\* "summary.<videoId>.md", the summary is written under it and the path
\* returned whenever the directory and the file can be written, and the only
\* error save_summary raises is that of a failed write.
C14_TitleFailureFallsBackToSummaryName ==
    pc = "saved" /\ metadata = <<>> =>
        /\ ListedTitleFailure(llm_reply) /\ disk # "mkdir fails" =>
              saved.title # <<>> /\ saved.title[1].exc # None
        /\ saved.exc # None => disk # "ok" /\ saved.exc = FailedToSaveSummary
        /\ saved.title # <<>> /\ saved.title[1].exc # None /\ disk = "ok" =>
              /\ saved.exc = None
              /\ saved.name = SummaryFilename(video_id)
              /\ saved.value = OutputDir \o <<"/">> \o SummaryFilename(video_id)
              /\ saved.file # <<>>
              /\ saved.file[1].name = SummaryFilename(video_id)
              /\ ~saved.file[1].header

\* C14 witness: the reply cleaned to 81 characters, and the summary was saved
\* as "summary.xyz.md".
C14_Witness ==
    /\ pc = "saved"
    /\ metadata = <<>>
    /\ disk = "ok"
    /\ llm_reply = Returned(Repeat(<<"a">>, 81))
    /\ video_id = IdXyz
    /\ saved.exc = None
    /\ saved.file # <<>>
    /\ saved.file[1].name = SummaryFilename(IdXyz)

\* C15: a title generate_title_from_summary returns is the cleaned form of
\* the reply, is not empty, has at most 80 characters, all of them in
\* [A-Za-z0-9_], and has no "_" at either end nor two in a row; a reply whose
\* cleaned form is empty or longer than 80 characters raises.
C15_ReturnedTitleIsCleanAndBounded ==
    pc = "titled" =>
        /\ generated_title.exc = None =>
              LET t == generated_title.value
              IN  /\ t # <<>> /\ t # NoneStr
                  /\ Len(t) <= 80
                  /\ \A k \in 1..Len(t) : t[k] \in AsciiLetters \cup Digits \cup {"_"}
                  /\ t[1] # "_" /\ t[Len(t)] # "_"
                  /\ \A k \in 1..(Len(t) - 1) : ~(t[k] = "_" /\ t[k + 1] = "_")
                  /\ llm_reply.exc = None
                  /\ t = ClaimedGeneratedTitle(llm_reply.value)
        /\ llm_reply.exc = None =>
              LET c == ClaimedGeneratedTitle(llm_reply.value)
              IN  (c = <<>> \/ Len(c) > 80) => generated_title.exc # None

\* C15 witness: a reply of 80 characters "a_a_..." was returned as the 79
\* characters left without the last "_".
C15_Witness ==
    /\ pc = "titled"
    /\ llm_reply = Returned(Repeat(<<"a", "_">>, 40))
    /\ generated_title.exc = None
    /\ Len(generated_title.value) = 79

\* s is the decimal numeral of n, without leading zeros.
IsNumeralOf(s, n) ==
    /\ IsDigitStr(s)
    /\ Len(s) = 1 \/ s[1] # "0"
    /\ DecimalValue(s) = n

\* s is the numeral of n with a "," before each group of three digits.
IsGroupedNumeralOf(s, n) ==
    /\ \A k \in 1..Len(s) : (s[k] = ",") <=> ((Len(s) - k + 1) % 4 = 0)
    /\ s # <<>> /\ s[1] # ","
    /\ IsNumeralOf(SelectSeq(s, LAMBDA c : c # ","), n)

\* C16 as stated: in the file saved with metadata, duration is "<n>s" for a
\* present duration n >= 0 and "N/A" exactly when it is absent, and the view
\* count is the thousands-grouped numeral of a present count (1234567 gives
\* "1,234,567") and "N/A" exactly when it is absent.
C16_HeaderRendersDurationAndViews ==
    pc = "saved" /\ metadata # <<>> /\ saved.file # <<>> =>
        LET m == metadata[1]
            f == saved.file[1]
        IN  /\ (f.duration_str = <<"N", "/", "A">>) <=> (m.duration = <<>>)
            /\ m.duration # <<>> =>
                  /\ f.duration_str # <<>>
                  /\ f.duration_str[Len(f.duration_str)] = "s"
                  /\ IsNumeralOf(SubSeq(f.duration_str, 1, Len(f.duration_str) - 1),
                                 m.duration[1])
            /\ (f.view_count_str = <<"N", "/", "A">>) <=> (m.view_count = <<>>)
            /\ m.view_count # <<>> => IsGroupedNumeralOf(f.view_count_str, m.view_count[1])
            /\ m.view_count = <<1234567>> =>
                  f.view_count_str = <<"1", ",", "2", "3", "4", ",", "5", "6", "7">>

\* C19: when download_transcript has ended, by return or by any of its
\* errors, the temporary directory and every file in it are gone, and the
\* directory exists only while the call is between its creation and its end.
C19_TempDirRemovedOnEveryExit ==
    /\ pc = "downloaded" => temp_dir = "removed" /\ temp_files = {}
    /\ temp_dir = "exists" => pc \in {"run", "ran", "metadata", "read"}
    /\ temp_files # {} => temp_dir = "exists"

\* C19 witness: the call ended with the parser's ValueError wrapped, after
\* yt-dlp had left a subtitle file and an info.json, and the directory is gone.
C19_Witness ==
    /\ pc = "downloaded"
    /\ download.exc = YouTubeSummarizerError
    /\ download.cause = ValueError
    /\ ytdlp.subtitles = "readable"
    /\ ytdlp.info.state = "object"
    /\ temp_dir = "removed"
    /\ temp_files = {}

\* C20 as stated: a timeout gives the timed-out download failure; a non-zero
\* exit without subtitle file the command failure with command, exit code and
\* output as details; a zero exit without subtitle file the no-subtitles
\* error; with a subtitle file, whatever the exit code, an empty transcript
\* gives the empty-transcript error and any other the return of transcript,
\* metadata and segments; every error is a YouTubeSummarizerError.
C20_OutcomeClassification ==
    pc = "downloaded" =>
        /\ download.exc \in {None, YouTubeSummarizerError}
        /\ ytdlp.kind = "timeout" =>
              download.exc = YouTubeSummarizerError /\ download.message = TimedOut
        /\ ytdlp.kind = "exited" /\ ytdlp.subtitles = "none" /\ ytdlp.returncode # 0 =>
              /\ download.exc = YouTubeSummarizerError
              /\ download.message = CommandFailed
              /\ download.details # <<>>
              /\ download.details[1].command = "yt-dlp"
              /\ download.details[1].exit_code = ytdlp.returncode
              /\ download.details[1].stderr = Strip(ytdlp.stderr)
              /\ download.details[1].stdout = Strip(ytdlp.stdout)
        /\ ytdlp.kind = "exited" /\ ytdlp.subtitles = "none" /\ ytdlp.returncode = 0 =>
              download.exc = YouTubeSummarizerError /\ download.message = NoSubtitleFiles
        /\ ytdlp.kind = "exited" /\ ytdlp.subtitles = "readable" =>
              IF _parse_vtt_content(vtt_content) = <<>>
              THEN /\ download.exc = YouTubeSummarizerError
                   /\ download.message = NoTextExtracted
              ELSE /\ download.exc = None
                   /\ download.value # <<>>
                   /\ download.value[1].transcript = _parse_vtt_content(vtt_content)
                   /\ download.value[1].metadata = info_metadata[1]

\* f matches the pattern "*.<id>.md" for an id without wildcard characters:
\* it is some characters, then ".", the id and ".md".
MatchesSummaryPattern(f, id) ==
    \E n \in 0..Len(f) :
        f = SubSeq(f, 1, n) \o <<".">> \o id \o <<".", "m", "d">>

\* The files of the output directory that match "*.<id>.md".
SummariesOf(id) == { f \in output_dir.files : MatchesSummaryPattern(f, id) }

\* The id of the URL whose turn it is.
IdOfTurn == get_video_id(urls[url_index + 1])

\* The turn of a URL has come whose id has a matching file in the output
\* directory.
SummaryExistsAtTurn ==
    /\ pc = "batch"
    /\ url_index < Len(urls)
    /\ IdOfTurn # NoneStr
    /\ ~IdHasWildcard(IdOfTurn)
    /\ SummariesOf(IdOfTurn) # {}

\* The URL is skipped and counted as a success: no download, no completion,
\* no save, no change of the directory.
SkippedAsSuccess ==
    /\ calls' = <<[op |-> "skip", id |-> IdOfTurn, ok |-> TRUE]>>
    /\ processed' = processed + 1
    /\ failed' = failed
    /\ url_index' = url_index + 1
    /\ output_dir' = output_dir
    /\ pc' = "batch"

\* After a successful save of a video the directory holds a file matching
\* "*.<id>.md" for its id.
SavedSummaryIsFound ==
    \A k \in 1..Len(calls) :
        (calls[k].op = "save" /\ calls[k].ok) => SummariesOf(calls[k].id) # {}

\* C17: when the turn of a URL comes whose id has a file matching
\* "*.<id>.md" in the output directory, the URL is skipped and counted as a
\* success with no download, completion or save; and a successful save
\* leaves such a file, so a later run skips the video.
C17_ExistingSummaryIsSkipped ==
    /\ []SavedSummaryIsFound
    /\ [][SummaryExistsAtTurn => SkippedAsSuccess]_vars

\* C17 witness: a URL was skipped because of a file that an earlier turn of
\* the program saved.
C17_Witness ==
    /\ Len(calls) = 1
    /\ calls[1].op = "skip"
    /\ processed >= 1
    /\ \E f \in SummariesOf(calls[1].id) : f \notin {OldSummary, OtherFile}

\* C18: the batch is never aborted, every turn increments exactly one of the
\* two counters, and at the end processed + failed is the number of URLs.
C18_BatchNeverAborts ==
    /\ pc # "aborted"
    /\ pc \in {"batch", "finished"} => processed + failed = url_index
    /\ pc = "finished" => processed + failed = Len(urls)

\* The str the claim gives a metadata field whose info.json key is k: the
\* value of the key if it holds one, else the placeholder.
FieldOrPlaceholder(k, placeholder) ==
    IF ytdlp.info.state = "object" /\ k.has = "value" THEN k.value ELSE placeholder

\* C21: whenever yt-dlp left a readable subtitle file with a non-empty
\* transcript, download_transcript returns, whatever the state of info.json,
\* and every field that info.json does not give holds its placeholder.
C21_UnavailableMetadataNeverFails ==
    ( /\ pc = "downloaded"
      /\ ytdlp.kind = "exited"
      /\ ytdlp.subtitles = "readable"
      /\ _parse_vtt_content(vtt_content) # <<>> ) =>
        /\ download.exc = None
        /\ download.value # <<>>
        /\ LET md == download.value[1].metadata
           IN  /\ md.title = FieldOrPlaceholder(ytdlp.info.title, UnknownTitle)
               /\ md.channel = FieldOrPlaceholder(ytdlp.info.channel, UnknownChannel)
               /\ md.channel_id = FieldOrPlaceholder(ytdlp.info.channel_id, <<>>)
               /\ md.upload_date = FieldOrPlaceholder(ytdlp.info.upload_date, <<>>)

\* The completion call returned a response whose text is None or "".
EmptyTextReturned ==
    completion.kind = "content" /\ completion.content \in {NoneStr, <<>>}

\* The completion call itself failed.
TransportFailed == completion.kind = "raises"

\* The message of the failure that reports an empty text.
EmptyTextMessage ==
    <<"Failed to generate summary", "Failed to generate summary",
      "LLM returned empty response">>

ClaimedBlockEnd(n) ==
    Least({ m \in (n + 1)..Len(lines) :
              m = Len(lines) \/ LineAt(m) = <<>> \/ CueAt(m) })

\* The cleaned text lines of that block, the empty ones dropped.
ClaimedTextParts(n) ==
    SelectSeq([m \in 1..(ClaimedBlockEnd(n) - n - 1) |-> _clean_vtt_line(LineAt(n + m))],
              NonEmpty)

\* C23: the text of a cue is collected up to the next empty line or
\* cue-timing line and no further stop: the segment of a cue holds every
\* text line of that block, and a cue with such a text line has a segment.
C23_CueTextEndsOnlyAtEmptyOrCueLine ==
    pc = "done" =>
        /\ \A k \in 1..Len(segments) :
              segments[k].text = Join(ClaimedTextParts(seg_cue[k]), <<" ">>)
        /\ \A n \in Range(cues_done) :
              ClaimedTextParts(n) # <<>> => n \in Range(seg_cue)

\* An iteration of the outer loop that goes back to the loop test leaves the
\* cursor strictly greater than it found it.
CursorAdvances == (pc = "scan" /\ pc' = "scan") => i' > i

\* No cursor value was processed as a cue twice.
EachCueOnce ==
    \A a, b \in 1..Len(cues_done) : cues_done[a] = cues_done[b] => a = b

\* The cue-timing lines of the text.
CueTimingLines == { n \in 0..(Len(lines) - 1) : CueAt(n) }

\* The cursor never passes the end of the text by more than one, so a
\* cursor that grows in every iteration leaves the loop.
CursorBounded == i <= Len(lines) + 1

\* C24: _parse_vtt_timestamps terminates: every iteration of the outer loop
\* leaves the cursor strictly greater although a "-->" line moves it back by
\* one, the cursor is bounded by the length of the text, each cue-timing
\* line is processed as a cue at most once, and there are never more
\* segments than cue-timing lines.
C24_ScanTerminates ==
    /\ [][CursorAdvances]_vars
    /\ [](Scanning =>
            /\ CursorBounded
            /\ EachCueOnce
            /\ Len(segments) <= Cardinality(CueTimingLines))

\* C24 witness: a finished scan in which a cue-timing line ended the text of
\* the cue before it, the cursor was moved back, and both were processed
\* as cues.
C24_Witness ==
    /\ pc = "done"
    /\ \E n \in 0..(Len(lines) - 3) :
          /\ CueAt(n) /\ ~Contains(LineAt(n + 1), ArrowToken) /\ LineAt(n + 1) # <<>>
          /\ CueAt(n + 2)
          /\ n \in Range(seg_cue) /\ n + 2 \in Range(cues_done)

\* The steps of a URL in their order.
StepOrder == <<"download", "summarize", "save">>

\* What one turn did is a skip, or the first steps of StepOrder for one id,
\* each step but the last one having succeeded.
StepsInOrder ==
    \/ calls = <<>>
    \/ Len(calls) = 1 /\ calls[1].op = "skip"
    \/ /\ Len(calls) <= 3
       /\ \A k \in 1..Len(calls) :
             /\ calls[k].op = StepOrder[k]
             /\ calls[k].id = calls[1].id
             /\ k < Len(calls) => calls[k].ok

\* A turn changes the files of the output directory only if its download
\* and its summarization succeeded.
WritesOnlyAfterBoth ==
    output_dir'.files # output_dir.files =>
        /\ Len(calls') = 3
        /\ calls'[1].op = "download" /\ calls'[1].ok
        /\ calls'[2].op = "summarize" /\ calls'[2].ok
        /\ calls'[3].op = "save"

\* C25: for one URL the steps happen only in the order download, summarize,
\* save, each at most once; summarize is not called after a failed download
\* and no file is written unless download and summarize both succeeded.
C25_DownloadSummarizeSaveInOrder ==
    /\ []StepsInOrder
    /\ [][WritesOnlyAfterBoth]_vars

\* C25 witness: one URL of the batch was saved, and the turn of the next one
\* ended with its failed download.
C25_Witness ==
    /\ processed >= 1
    /\ failed >= 1
    /\ \E f \in output_dir.files : f \notin {OldSummary, OtherFile}
    /\ Len(calls) = 1 /\ calls[1].op = "download" /\ ~calls[1].ok

\* The title part of the filename: what stands before ".<video_id>.md".
TitlePart == SubSeq(filename, 1, Len(filename) - Len(video_id) - 4)

\* C26: the title part of the filename is never empty and neither begins nor
\* ends with "_", whatever the title.
C26_TitlePartNeverEmptyNorEdgedByUnderscore ==
    pc = "named" =>
        /\ TitlePart # <<>>
        /\ TitlePart[1] # "_"
        /\ TitlePart[Len(TitlePart)] # "_"

\* The turn of a URL has come.
TurnComes == pc = "batch" /\ url_index < Len(urls)

\* The turn that is taken skips its URL.
TurnSkips == Len(calls') = 1 /\ calls'[1].op = "skip"

\* C27: whether a URL is skipped is decided by its video id and the files of
\* the output directory alone, the same for both values of skip_existing:
\* with skip_existing false too, a video that has its summary is skipped.
C27_SkipDecisionIgnoresSkipExisting ==
    [][TurnComes =>
         /\ TurnSkips <=> SummaryExistsAtTurn
         /\ skip_existing' = skip_existing]_vars

\* C27 witness: with skip_existing false, a URL was skipped because of a
\* summary saved earlier.
C27_Witness ==
    /\ skip_existing = FALSE
    /\ Len(calls) = 1
    /\ calls[1].op = "skip"
    /\ \E f \in SummariesOf(calls[1].id) : f \notin {OldSummary, OtherFile}

====
